---- MODULE Spec2Model ----
(***************************************************************************)
(* nodejs-dashboard: the dashboard controller, the base view, the          *)
(* platform-details view and the modal input dialogs, as one state machine *)
(* driven by the terminal's events (key presses, resizes, timers).         *)
(*                                                                         *)
(* The program is single threaded: every event handler runs to completion. *)
(* A handler is modelled as a function from program state to program       *)
(* state (a record, see Cur), so that handlers that call each other        *)
(* compose exactly as in the code; one action of Next is one event of the  *)
(* event loop.                                                             *)
(*                                                                         *)
(* The widget toolkit (blessed) and lodash are libraries outside the       *)
(* repository.  The operators that stand for their calls are modelled by   *)
(* the library's behaviour at the program's call sites.                    *)
(***************************************************************************)
EXTENDS Integers, Sequences, FiniteSets, TLC

(***************************************************************************)
(* Bounds of the model.                                                    *)
(***************************************************************************)
\* views constructed during one run (view objects are never reused)
MaxViews == 4
\* keys and resizes delivered during one run (timers are not counted)
MaxSteps == 5
\* characters of a filter text
MaxFilterLen == 4
\* keys that open or close the filter dialog in a run of the dialog
MaxFilterKeys == 3
\* layouts of a layouts file, for the arithmetic of the roll
MaxLayouts == 4

(***************************************************************************)
(* Program constants.                                                      *)
(***************************************************************************)
ERROR_TEXT_DISPLAY_TIME == 3000
MILLISECONDS_PER_SECOND == 1000
THROTTLE_TIMEOUT == 150

\* the dashboard's global key list
globalKeys ==
  { "left", "right", "?", "h", "S-h", "g", "S-g", "w", "S-w", "s", "S-s",
    "a", "S-a", "d", "S-d", "z", "S-z", "x", "S-x", "q", "S-q", "escape" }

\* keys used locally by the platform-details view
localKeys ==
  { "w", "S-w", "s", "S-s", "f", "S-f", "C-f", "pageup", "pagedown",
    "home", "end" }

\* the keys the environment panel binds to scrollDetails on attach
scrollKeys == { "w", "S-w", "s", "S-s", "pageup", "pagedown", "home", "end" }

\* the keys the environment panel binds to displayFilterEnvWindow on attach
filterKeys == { "f", "S-f", "C-f" }

\* a screen whose ignoreLocked list was left empty
NothingIgnored == { }

\* screen.ignoreLocked
ignoreLocked == { "C-c" }

\* the layouts of the layouts file: each a list of view types
Layouts ==
  << << "platformDetails" >>, << "other" >>,
     << "memoryGraph", "platformDetails" >> >>

\* the keys the terminal delivers in this model
PressedKeys ==
  { "left", "right", "h", "g", "w", "a", "f", "q", "escape", "enter", "tab",
    "C-c" }

\* the messages validateTimeLabel can throw
Messages == { "out of range", "not a time" }

\* the timestamps validateTimeLabel can return
Timestamps == { "t1", "t2" }

\* the terminal sizes a resize can produce
Sizes == { 1, 2 }

ViewIds == 1 .. (MaxViews + 2)
\* dialog 0 is the goto-time dialog; dialog v is the filter dialog of view v
GotoDialog == 0
Dialogs == {GotoDialog} \cup ViewIds

None == << "none", 0 >>
Container == << "container", 0 >>
env(v) == << "env", v >>
textBox(d) == << "text", d >>
form(d) == << "form", d >>
acceptButton(d) == << "accept", d >>
cancelButton(d) == << "cancel", d >>

VARIABLES
  history,       \* screen.history: the focus stack, last element is focused
  savedFocus,    \* screen._savedFocus
  grabKeys,      \* screen.grabKeys: a text field is reading input
  reading,       \* dialogs whose text field is reading (_reading)
  unfocused,     \* dialogs whose readInput started without focus
  hidden,        \* hidden[d]: dialog node hidden
  helpHidden,    \* helpView.node.hidden
  errorText,     \* errorText[d]: the message the error line shows, "" while
                 \* it is hidden
  errorTimeout,  \* errorTimeout[d]: "unset", "live" (timer pending), "fired"
  timers,        \* timers[d]: remaining ms of each pending error-hide timer
  currentLayout, \* dashboard.currentLayout, -1 before the first layout
  views,         \* dashboard.views: ids of the views of the active layout
  nextId,        \* id of the next view object constructed
  vtype,         \* vtype[v]: type of view v, "none" if not constructed
  hasNode,       \* views whose node is attached to the container
  resizeSubs,    \* views whose recalculatePosition listens to screen resize
  position,      \* position[v]: node.position, as the size it was set for
                 \* (0: the view has no node)
  size,          \* the terminal size
  uptime,        \* uptime[v]: pending uptime intervals of view v
  bubbleH,       \* bubbleH[v]: bubbleKeyEvent handlers per bubbled key on envDetails
  scrollH,       \* scrollH[v]: scrollDetails handlers per scroll key on envDetails
  filterH,       \* filterH[v]: displayFilterEnvWindow handlers per filter key
  fdListeners,   \* fdListeners[v]: 'validated' listeners on v's filter dialog
  throttle,      \* rollLayout's throttle: "idle", "window", "left", "right"
  hasRange,      \* metricsProvider has a time range (maxTime.label)
  exited,        \* process.exit was called
  uptimeHandle,  \* views whose this.uptimeInterval is set
  dialogNodes,   \* views whose filter dialog's node is attached to the
                 \* container
  shownFrom,     \* shownFrom[d]: the element that had the focus when dialog
                 \* d was last shown (history variable)
  looseRemove,   \* the toolkit's removeListener drops a key's only listener
                 \* whichever function it is given (fixed for a run)
  steps,         \* keys and resizes delivered so far
  input,         \* the event handled by the last step
  trace          \* what the last step's handlers did, in order

dashboardVars ==
  << history, savedFocus, grabKeys, reading, unfocused, hidden, helpHidden,
     errorText, errorTimeout, timers, currentLayout, views, nextId,
     vtype, hasNode, resizeSubs, position, size, uptime, bubbleH, scrollH,
     filterH, fdListeners, throttle, hasRange, exited, uptimeHandle,
     dialogNodes, shownFrom, looseRemove, steps, input, trace >>

\* the program state as one record
Cur ==
  [ history |-> history, savedFocus |-> savedFocus, grabKeys |-> grabKeys,
    reading |-> reading, unfocused |-> unfocused, hidden |-> hidden,
    helpHidden |-> helpHidden, errorText |-> errorText,
    errorTimeout |-> errorTimeout, timers |-> timers,
    currentLayout |-> currentLayout, views |-> views, nextId |-> nextId,
    vtype |-> vtype, hasNode |-> hasNode, resizeSubs |-> resizeSubs,
    position |-> position, size |-> size, uptime |-> uptime,
    bubbleH |-> bubbleH, scrollH |-> scrollH, filterH |-> filterH,
    fdListeners |-> fdListeners, throttle |-> throttle, hasRange |-> hasRange,
    exited |-> exited, uptimeHandle |-> uptimeHandle,
    dialogNodes |-> dialogNodes,
    shownFrom |-> shownFrom, looseRemove |-> looseRemove, trace |-> trace ]

Becomes(s) ==
  /\ history' = s.history
  /\ savedFocus' = s.savedFocus
  /\ grabKeys' = s.grabKeys
  /\ reading' = s.reading
  /\ unfocused' = s.unfocused
  /\ hidden' = s.hidden
  /\ helpHidden' = s.helpHidden
  /\ errorText' = s.errorText
  /\ errorTimeout' = s.errorTimeout
  /\ timers' = s.timers
  /\ currentLayout' = s.currentLayout
  /\ views' = s.views
  /\ nextId' = s.nextId
  /\ vtype' = s.vtype
  /\ hasNode' = s.hasNode
  /\ resizeSubs' = s.resizeSubs
  /\ position' = s.position
  /\ size' = s.size
  /\ uptime' = s.uptime
  /\ bubbleH' = s.bubbleH
  /\ scrollH' = s.scrollH
  /\ filterH' = s.filterH
  /\ fdListeners' = s.fdListeners
  /\ throttle' = s.throttle
  /\ hasRange' = s.hasRange
  /\ exited' = s.exited
  /\ uptimeHandle' = s.uptimeHandle
  /\ dialogNodes' = s.dialogNodes
  /\ shownFrom' = s.shownFrom
  /\ looseRemove' = s.looseRemove
  /\ trace' = s.trace

InitialState(s) ==
  /\ history = s.history
  /\ savedFocus = s.savedFocus
  /\ grabKeys = s.grabKeys
  /\ reading = s.reading
  /\ unfocused = s.unfocused
  /\ hidden = s.hidden
  /\ helpHidden = s.helpHidden
  /\ errorText = s.errorText
  /\ errorTimeout = s.errorTimeout
  /\ timers = s.timers
  /\ currentLayout = s.currentLayout
  /\ views = s.views
  /\ nextId = s.nextId
  /\ vtype = s.vtype
  /\ hasNode = s.hasNode
  /\ resizeSubs = s.resizeSubs
  /\ position = s.position
  /\ size = s.size
  /\ uptime = s.uptime
  /\ bubbleH = s.bubbleH
  /\ scrollH = s.scrollH
  /\ filterH = s.filterH
  /\ fdListeners = s.fdListeners
  /\ throttle = s.throttle
  /\ hasRange = s.hasRange
  /\ exited = s.exited
  /\ uptimeHandle = s.uptimeHandle
  /\ dialogNodes = s.dialogNodes
  /\ shownFrom = s.shownFrom
  /\ looseRemove = s.looseRemove
  /\ trace = s.trace

Log(s, e) == [s EXCEPT !.trace = Append(@, e)]

(***************************************************************************)
(* The toolkit's screen: focus stack, saved focus, text input.             *)
(***************************************************************************)
Top(h) == IF Len(h) = 0 THEN None ELSE h[Len(h)]
Front(h) == SubSeq(h, 1, Len(h) - 1)

\* screen.focused
Focused(s) == Top(s.history)

\* el is attached and neither it nor an ancestor is hidden
Visible(s, el) ==
  CASE el[1] = "container" -> TRUE
    [] el[1] = "env" -> el[2] \in s.hasNode
    [] el[1] \in { "text", "form", "accept", "cancel" } -> ~s.hidden[el[2]]
    [] OTHER -> FALSE

RECURSIVE Focus(_, _, _), Done(_, _), rewindFocus(_), RewindLoop(_, _),
          readInput(_, _), focusPush(_, _), restoreFocus(_)

\* screen.saveFocus()
saveFocus(s) ==
  Log([s EXCEPT !.savedFocus = Focused(s)], << "saveFocus", Focused(s) >>)

\* screen._focus(self, old): old gets 'blur', self gets 'focus'.  A reading
\* text field ends its input on blur; an inputOnFocus text field starts
\* reading on focus.
Focus(s, self, old) ==
  LET s1 == IF old[1] = "text" /\ old[2] \in s.reading
            THEN Done(s, old[2]) ELSE s
      s2 == Log(s1, << "focus", self >>)
  IN  IF self[1] = "text" THEN readInput(s2, self[2]) ELSE s2

\* screen.focusPush(el), which el.focus() calls; the focus stack keeps ten
\* elements
focusPush(s, el) ==
  IF el = None THEN s
  ELSE LET old == Focused(s)
           h == IF Len(s.history) = 10 THEN Tail(s.history)
                ELSE s.history
       IN  Focus([s EXCEPT !.history = Append(h, el)], el, old)

\* screen.focusPop(): the popped element is returned, the one below refocused
focusPop(s) ==
  LET old == Focused(s)
      s1 == [s EXCEPT !.history = Front(@)]
  IN  IF Len(s1.history) > 0 THEN Focus(s1, Focused(s1), old) ELSE s1

\* screen.rewindFocus(): drop the focused element and refocus the nearest
\* element below it that is still attached and visible
RewindLoop(s, old) ==
  IF Len(s.history) = 0
  THEN IF old[1] = "text" /\ old[2] \in s.reading THEN Done(s, old[2]) ELSE s
  ELSE IF Visible(s, Focused(s))
       THEN Focus(s, Focused(s), old)
       ELSE RewindLoop([s EXCEPT !.history = Front(@)], old)

rewindFocus(s) ==
  IF Len(s.history) = 0 THEN s
  ELSE RewindLoop([s EXCEPT !.history = Front(@)], Focused(s))

\* screen.restoreFocus()
restoreFocus(s) ==
  IF s.savedFocus = None THEN s
  ELSE LET s1 == focusPush(Log(s, << "restoreFocus", s.savedFocus >>),
                           s.savedFocus)
       IN  [s1 EXCEPT !.savedFocus = None]

\* textbox.readInput(), run by the text field's 'focus' listener (inputOnFocus)
readInput(s, d) ==
  IF d \in s.reading THEN s
  ELSE LET s1 == [s EXCEPT !.reading = @ \cup {d}]
           s2 == IF Focused(s) = textBox(d) THEN s1
                 ELSE focusPush(
                        [saveFocus(s1) EXCEPT !.unfocused = @ \cup {d}],
                        textBox(d))
       IN  [s2 EXCEPT !.grabKeys = TRUE]

\* the text field's _done(): input ends (enter, escape or blur)
Done(s, d) ==
  IF d \notin s.reading THEN s
  ELSE LET s1 == [s EXCEPT !.reading = @ \ {d}, !.grabKeys = FALSE,
                           !.unfocused = @ \ {d}]
           s2 == IF d \in s.unfocused THEN restoreFocus(s1) ELSE s1
       IN  rewindFocus(s2)

(***************************************************************************)
(* BaseInputDialogView: the modal input dialogs.                           *)
(***************************************************************************)
\* node.hide() of the dialog's box: a hidden node stays hidden
nodeHide(s, d) ==
  IF s.hidden[d] THEN s
  ELSE Log([s EXCEPT !.hidden[d] = TRUE], << "hide", d >>)

\* a reset that leaves the error text as it is
ResetKeepsError(s, d) == Log(s, << "reset", d >>)

\* form.reset(): the form's 'reset' listener hides the error text
formReset(s, d) == Log([s EXCEPT !.errorText[d] = ""], << "reset", d >>)

\* the dialog node's 'show' listener
onShow(s, d) ==
  LET s1 == saveFocus(s)
      s2 == Log(s1, << "setFront", d >>)
      s3 == formReset(s2, d)
  IN  focusPush(s3, textBox(d))

\* node.show() of the dialog's box: a visible node stays visible
nodeShow(s, d) ==
  IF ~s.hidden[d] THEN s
  ELSE onShow(Log([s EXCEPT !.hidden[d] = FALSE,
                            !.shownFrom[d] = Focused(s)],
                  << "show", d >>), d)

\* BaseInputDialogView.prototype.toggle
baseToggle(s, d) == IF s.hidden[d] THEN nodeShow(s, d) ELSE nodeHide(s, d)

\* a hide that leaves the focus where it is
HideKeepsFocus(s, d) == nodeHide(s, d)

\* BaseInputDialogView.prototype.hide
dialogHide(s, d) == restoreFocus(nodeHide(s, d))

\* BaseInputDialogView.prototype.isVisible
isVisible(s, d) == ~s.hidden[d]

\* a toggle that does not look for a time range
ToggleWithoutRange(s) ==
  IF isVisible(s, GotoDialog) THEN Log(s, << "toggle", GotoDialog >>)
  ELSE baseToggle(Log(s, << "toggle", GotoDialog >>), GotoDialog)

\* a toggle that hides the visible dialog
ToggleHidesToo(s) ==
  IF ~s.hasRange THEN Log(s, << "toggle", GotoDialog >>)
  ELSE baseToggle(Log(s, << "toggle", GotoDialog >>), GotoDialog)

\* GotoTimeView.prototype.toggle
gotoToggle(s) ==
  LET s1 == Log(s, << "toggle", GotoDialog >>)
  IN  IF ~s.hasRange \/ isVisible(s, GotoDialog) THEN s1
      ELSE baseToggle(s1, GotoDialog)

\* a submit that forgets the pending timer
KeepErrorTimeout(s, d) == s

\* clearTimeout(this.errorTimeout); delete this.errorTimeout
clearErrorTimeout(s, d) ==
  IF s.errorTimeout[d] = "unset" THEN s
  ELSE Log([s EXCEPT !.errorTimeout[d] = "unset",
                     !.timers[d] = IF s.errorTimeout[d] = "live"
                                   THEN Front(@) ELSE @],
           << "clearTimeout", d >>)

\* BaseInputDialogView.prototype.validate: emit 'validated'
baseValidate(s, d) == Log(s, << "validated", d >>)

\* the errors a 'validated' listener of the filter dialog can throw
Thrown == { "SyntaxError", "TypeError" }

\* validate() of dialog d returns normally; res is what its callee does with
\* the text: validateTimeLabel returns a timestamp or throws a message, the
\* 'validated' listeners of a filter dialog return or throw an error
validateOk(d, res) ==
  IF d = GotoDialog THEN res \in Timestamps ELSE res \notin Thrown

\* metricsProvider.validateTimeLabel(this.textBox.getContent())
validateTimeLabel(s, res) == Log(s, << "validateTimeLabel", res >>)

\* a validate that never moves the graphs
ValidateWithoutGoto(s, d, res) ==
  LET s1 == Log(s, << "validate", d >>)
  IN  IF d = GotoDialog
      THEN IF res \in Timestamps
           THEN baseValidate(validateTimeLabel(s1, res), d)
           ELSE validateTimeLabel(s1, res)
      ELSE baseValidate(s1, d)

\* validate() of dialog d, up to its return or its throw: the goto-time
\* dialog passes the timestamp validateTimeLabel returns to gotoTimeValue
validate(s, d, res) ==
  LET s1 == Log(s, << "validate", d >>)
  IN  IF d = GotoDialog
      THEN IF res \in Timestamps
           THEN baseValidate(Log(validateTimeLabel(s1, res),
                                 << "gotoTimeValue", res >>), d)
           ELSE validateTimeLabel(s1, res)
      ELSE baseValidate(s1, d)

\* a submit handler without the catch block's textBox.focus()
SubmitLeavesFocus(s, d, res) ==
  LET s1 == clearErrorTimeout(Log(s, << "submit", d >>), d)
  IN  IF validateOk(d, res)
      THEN dialogHide(validate(s1, d, res), d)
      ELSE LET s2 == validate(s1, d, res)
               s3 == Log([s2 EXCEPT !.errorText[d] = res],
                         << "error", d, res >>)
           IN  Log([s3 EXCEPT
                      !.timers[d] = Append(@, ERROR_TEXT_DISPLAY_TIME),
                      !.errorTimeout[d] = "live"],
                   << "setTimeout", d >>)

\* a submit that lets a timer it finds pending stand for the new error
SubmitReusesTimer(s, d, res) ==
  LET s1 == Log(s, << "submit", d >>)
  IN  IF validateOk(d, res)
      THEN dialogHide(validate(clearErrorTimeout(s1, d), d, res), d)
      ELSE LET s2 == validate(s1, d, res)
               s3 == Log([s2 EXCEPT !.errorText[d] = res],
                         << "error", d, res >>)
               s4 == focusPush(s3, textBox(d))
           IN  IF s.errorTimeout[d] = "live" THEN s4
               ELSE Log([s4 EXCEPT
                           !.timers[d] = Append(@, ERROR_TEXT_DISPLAY_TIME),
                           !.errorTimeout[d] = "live"],
                        << "setTimeout", d >>)

\* the form's 'submit' listener
onSubmit(s, d, res) ==
  LET s1 == clearErrorTimeout(Log(s, << "submit", d >>), d)
  IN  IF validateOk(d, res)
      THEN dialogHide(validate(s1, d, res), d)
      ELSE LET s2 == validate(s1, d, res)
               s3 == Log([s2 EXCEPT !.errorText[d] = res],
                         << "error", d, res >>)
               s4 == focusPush(s3, textBox(d))
           IN  Log([s4 EXCEPT
                      !.timers[d] = Append(@, ERROR_TEXT_DISPLAY_TIME),
                      !.errorTimeout[d] = "live"],
                   << "setTimeout", d >>)

\* a cancel that validates like a submit
CancelValidates(s, d) ==
  dialogHide(baseValidate(Log(Log(s, << "cancel", d >>),
                              << "validate", d >>), d), d)

\* a cancel that clears the error-hide timer before hiding
CancelClearsTimer(s, d) ==
  dialogHide(clearErrorTimeout(Log(s, << "cancel", d >>), d), d)

\* the form's 'cancel' listener
onCancel(s, d) == dialogHide(Log(s, << "cancel", d >>), d)

\* button.press(): the button takes focus and emits 'press'
acceptPress(s, d, res) == onSubmit(focusPush(s, acceptButton(d)), d, res)
cancelPress(s, d) == onCancel(focusPush(s, cancelButton(d)), d)

\* a timer callback that leaves the error text showing
TimerKeepsError(s, d) == Log(s, << "errorHide", d >>)

\* a timer callback that also drops the views' resize listeners
TimerDropsResize(s, d) ==
  Log([s EXCEPT !.errorText[d] = "", !.resizeSubs = { }],
      << "errorHide", d >>)

\* the error-hide timer's callback
errorTimerFired(s, d) ==
  Log([s EXCEPT !.errorText[d] = ""], << "errorHide", d >>)

(***************************************************************************)
(* Keys delivered to an element of a dialog's form (form: keys = true).    *)
(***************************************************************************)
\* the form's 'element keypress' listener, for a key that came from el
formElementKey(s, d, el, k) ==
  CASE k = "tab" ->
         \* a text field is sent a synthetic backspace and a synthetic
         \* escape keypress before the next element is focused
         LET s1 == IF el[1] = "text"
                   THEN focusPush(
                          Done(Log(Log(s, << "textChanged", d >>),
                                   << "textChanged", d >>), d),
                          form(d))
                   ELSE s
             next == CASE el[1] = "text" -> acceptButton(d)
                       [] el[1] = "accept" -> cancelButton(d)
                       [] OTHER -> textBox(d)
         IN  IF s1.hidden[d] THEN s1 ELSE focusPush(s1, next)
    [] k = "escape" -> focusPush(s, form(d))
    [] OTHER -> s

\* a key delivered to the focused text field of dialog d
textKey(s, d, k, res) ==
  LET s1 == Log(s, << "textChanged", d >>)
      s2 == IF d \in s1.reading /\ k \in { "enter", "escape" }
            THEN Done(s1, d) ELSE s1
      s3 == formElementKey(s2, d, textBox(d), k)
  IN  CASE k = "enter" -> acceptPress(s3, d, res)
        [] k = "escape" -> cancelPress(s3, d)
        [] OTHER -> s3

\* a key delivered to a focused button of dialog d
buttonKey(s, d, el, k, res) ==
  LET s1 == IF k = "enter"
            THEN IF el[1] = "accept" THEN acceptPress(s, d, res)
                 ELSE cancelPress(s, d)
            ELSE s
      s2 == formElementKey(s1, d, el, k)
  IN  IF k = "escape" THEN cancelPress(s2, d) ELSE s2

\* a key delivered to the focused form of dialog d
formKey(s, d, k) == formElementKey(s, d, form(d), k)

(***************************************************************************)
(* BaseView and PlatformDetailsView.                                       *)
(***************************************************************************)
\* a difference that keeps the whole array
KeepAll(array, values) == array

\* _.difference(array, values)
difference(array, values) == { k \in array : k \notin values }

\* BaseView.prototype.listenGlobalKeys: keyDifference
keyDifference == difference(globalKeys, localKeys)

\* an unkey that removes nothing
UnkeyNothing(s, n, bound) == n

\* element.unkey(key, listener) on a key with n handlers; bound says that
\* listener is the function those handlers were bound with
unkey(s, n, bound) ==
  IF bound THEN (IF n > 0 THEN n - 1 ELSE 0)
  ELSE IF s.looseRemove /\ n = 1 THEN 0 ELSE n

\* this._remountOnResize: false in BaseView and so in a platform-details
\* view; a line graph sets it
remountOnResize(s, v) == s.vtype[v] = "memoryGraph"

\* envDetails 'attach': the view's listener, then listenGlobalKeys' listener
envAttach(s, v) ==
  [s EXCEPT !.scrollH[v] = @ + 1, !.filterH[v] = @ + 1,
            !.fdListeners[v] = @ + 1, !.bubbleH[v] = @ + 1]

\* envDetails 'detach': the view's listener, then listenGlobalKeys' listener
envDetach(s, v) ==
  [s EXCEPT !.scrollH[v] = unkey(s, @, TRUE),
            !.filterH[v] = unkey(s, @, FALSE),
            !.fdListeners[v] = 0,
            !.bubbleH[v] = unkey(s, @, TRUE)]

\* nodeDetails 'attach': start the uptime interval
nodeDetailsAttach(s, v) ==
  Log([s EXCEPT !.uptime[v] = @ + 1, !.uptimeHandle = @ \cup {v}],
      << "setInterval", v >>)

\* the uptime interval's callback: the Node box gets its content anew
uptimeFired(s, v) == Log(s, << "uptime", v >>)

\* a detach that lets the uptime interval run on
DetachKeepsInterval(s, v) == s

\* nodeDetails 'detach': stop the uptime interval
nodeDetailsDetach(s, v) ==
  IF v \in s.uptimeHandle
  THEN Log([s EXCEPT !.uptime[v] = IF @ > 0 THEN @ - 1 ELSE 0,
                     !.uptimeHandle = @ \ {v}],
           << "clearInterval", v >>)
  ELSE s

\* the 'attach' events of a view's node and its boxes
nodeAttach(s, v) ==
  LET s1 == Log([s EXCEPT !.hasNode = @ \cup {v}], << "attach", v >>)
  IN  IF s.vtype[v] = "platformDetails"
      THEN envAttach(nodeDetailsAttach(s1, v), v)
      ELSE s1

\* the 'detach' events of a view's node and its boxes
nodeDetach(s, v) ==
  LET s1 == Log([s EXCEPT !.hasNode = @ \ {v}], << "detach", v >>)
  IN  IF s.vtype[v] = "platformDetails"
      THEN envDetach(nodeDetailsDetach(s1, v), v)
      ELSE s1

\* a recalculatePosition that remounts the node whether or not the position
\* changed
RemountUnchanged(s, v) ==
  LET s0 == Log(s, << "recalculatePosition", v >>)
      s1 == IF s.position[v] = s.size THEN s0
            ELSE Log([s0 EXCEPT !.position[v] = s.size], << "position", v >>)
  IN  IF remountOnResize(s1, v) /\ v \in s1.hasNode
      THEN nodeAttach(nodeDetach(s1, v), v)
      ELSE s1

\* BaseView.prototype.recalculatePosition
recalculatePosition(s, v) ==
  LET s0 == Log(s, << "recalculatePosition", v >>)
  IN  IF s.position[v] = s.size THEN s0
      ELSE LET s1 == Log([s0 EXCEPT !.position[v] = s.size],
                         << "position", v >>)
           IN  IF remountOnResize(s1, v) /\ v \in s1.hasNode
               THEN nodeAttach(nodeDetach(s1, v), v)
               ELSE s1

\* BaseView constructor
BaseView(s, v, type) ==
  Log([s EXCEPT !.vtype[v] = type, !.nextId = v + 1,
                !.resizeSubs = @ \cup {v}],
      << "construct", v >>)

\* new FilterEnvDialogView(options): the dialog's constructView appends its
\* (hidden) node to options.parent, the container
FilterEnvDialogView(s, v) ==
  Log([s EXCEPT !.dialogNodes = @ \cup {v}], << "appendDialog", v >>)

\* PlatformDetailsView constructor: constructView appends the node to the
\* container, then appends each box to the node again, which detaches and
\* reattaches the box
PlatformDetailsView(s, v) ==
  LET s1 == FilterEnvDialogView(BaseView(s, v, "platformDetails"), v)
      s2 == saveFocus(s1)
      s3 == nodeAttach(s2, v)
      s4 == nodeDetailsAttach(nodeDetailsDetach(s3, v), v)
      s5 == envAttach(envDetach(s4, v), v)
      s6 == focusPush(s5, env(v))
  IN  recalculatePosition(s6, v)

\* a view of another type: what BaseView gives it, and its node
OtherView(s, v, type) ==
  recalculatePosition(nodeAttach(BaseView(s, v, type), v), v)

\* new View(...)
NewView(s, v, type) ==
  IF type = "platformDetails" THEN PlatformDetailsView(s, v)
  ELSE OtherView(s, v, type)

\* what a caller may pass as options.parent and options.layoutConfig: no
\* value (None, "undefined"), a layoutConfig without getPosition, one whose getPosition is a
\* string, one whose getPosition is a function
Parents == { None, Container }
LayoutConfigs == { "undefined", "{}", "{getPosition: 'top'}",
                   "{getPosition: function}" }
Options == [ parent : Parents, layoutConfig : LayoutConfigs ]

\* _.isFunction(options.layoutConfig.getPosition)
isFunction(layoutConfig) == layoutConfig = "{getPosition: function}"

\* a constructor that asserts the parent alone
RequiresParentOnly(options) ==
  IF options.parent = None THEN "View requires parent" ELSE ""

\* the assertions that open the BaseView constructor: the message of the
\* first one that fails, "" when both hold
assertion(options) ==
  IF options.parent = None THEN "View requires parent"
  ELSE IF ~(options.layoutConfig # "undefined"
            /\ isFunction(options.layoutConfig))
  THEN "View requires layoutConfig option with getPosition function"
  ELSE ""

\* new View(options) for any options: every view's constructor starts with
\* BaseView.call(this, options), whose failed assertion throws before
\* anything is assigned, subscribed or attached
View(s, v, type, options) ==
  LET s1 == Log(s, << "options", options.parent, options.layoutConfig >>)
  IN  IF assertion(options) # ""
      THEN Log(s1, << "AssertionError", assertion(options) >>)
      ELSE NewView(s1, v, type)

\* a destroy that leaves the resize listener registered
DestroyKeepsResize(s, v) ==
  LET s1 == Log(s, << "destroy", v >>)
  IN  IF v \in s1.hasNode THEN nodeDetach(s1, v) ELSE s1

\* BaseView.prototype.destroy
destroy(s, v) ==
  LET s1 == Log(s, << "destroy", v >>)
      s2 == IF v \in s1.hasNode THEN nodeDetach(s1, v) ELSE s1
  IN  Log([s2 EXCEPT !.resizeSubs = @ \ {v}, !.position[v] = 0],
          << "removeResize", v >>)

(***************************************************************************)
(* Dashboard.                                                              *)
(***************************************************************************)
RECURSIVE destroyAll(_, _), clearFocus(_), constructAll(_, _, _)

destroyAll(s, vs) ==
  IF Len(vs) = 0 THEN s ELSE destroyAll(destroy(s, Head(vs)), Tail(vs))

\* a layout switch that leaves the focus stack as it is
KeepFocus(s) == s

\* while (this.screen.focusPop()) {}
clearFocus(s) == IF Len(s.history) = 0 THEN s ELSE clearFocus(focusPop(s))

\* a construction of the layout's first view only
ConstructFirstOnly(s, id, i) ==
  LET v == s.nextId
      s1 == NewView(Log(s, << "new", v, Container, globalKeys >>), v,
                    Layouts[id + 1][1])
  IN  [s1 EXCEPT !.views = Append(@, v)]

\* the view types VIEW_MAP has a class for; "other" stands for log, cpu,
\* memory and eventLoop
VIEW_MAP == { "other", "memoryGraph", "platformDetails" }

\* _.each(this.layouts[id], ...): an entry whose type has a class is
\* constructed with the container as parent and the global keys, and pushed
constructAll(s, id, i) ==
  IF i > Len(Layouts[id + 1]) THEN s
  ELSE IF Layouts[id + 1][i] \notin VIEW_MAP THEN constructAll(s, id, i + 1)
  ELSE LET v == s.nextId
           s1 == NewView(Log(s, << "new", v, Container, globalKeys >>), v,
                         Layouts[id + 1][i])
       IN  constructAll([s1 EXCEPT !.views = Append(@, v)], id, i + 1)

\* a layout switch that builds the incoming views first
BuildThenDestroy(s, id) ==
  IF s.currentLayout = id THEN s
  ELSE LET s1 == Log(s, << "showLayout", id >>)
           s2 == constructAll([s1 EXCEPT !.views = << >>], id, 1)
           s3 == destroyAll(s2, s.views)
       IN  Log([s3 EXCEPT !.currentLayout = id], << "helpFront" >>)

\* a _showLayout without the early return for the current layout
ShowLayoutAgain(s, id) ==
  LET s1 == destroyAll(Log(s, << "showLayout", id >>), s.views)
      s2 == clearFocus([s1 EXCEPT !.views = << >>])
      s3 == focusPush(s2, Container)
      s4 == constructAll(s3, id, 1)
  IN  Log([s4 EXCEPT !.currentLayout = id], << "helpFront" >>)

\* Dashboard.prototype._showLayout
showLayout(s, id) ==
  IF s.currentLayout = id THEN s
  ELSE LET s1 == destroyAll(Log(s, << "showLayout", id >>), s.views)
           s2 == clearFocus([s1 EXCEPT !.views = << >>])
           s3 == focusPush(s2, Container)
           s4 == constructAll(s3, id, 1)
       IN  Log([s4 EXCEPT !.currentLayout = id], << "helpFront" >>)

\* a target that stops at the last and the first layout
TargetClamped(current, delta, n) ==
  IF current + delta < 0 THEN 0
  ELSE IF current + delta > n - 1 THEN n - 1
  ELSE current + delta

\* (this.currentLayout + delta + this.layouts.length) % this.layouts.length
target(current, delta, n) == (current + delta + n) % n

\* the function rollLayout throttles
roll(s, k) ==
  LET delta == IF k = "left" THEN -1 ELSE 1
  IN  showLayout(Log(s, << "roll", k >>),
                 target(s.currentLayout, delta, Len(Layouts)))

\* rollLayout: _.throttle(roll, THROTTLE_TIMEOUT): the first call runs at
\* once, a call within the wait is kept (the last one) for the wait's end
rollLayout(s, k) ==
  IF s.throttle = "idle" THEN roll([s EXCEPT !.throttle = "window"], k)
  ELSE [s EXCEPT !.throttle = k]

\* the throttle's timer expires
throttleExpired(s) ==
  IF s.throttle \in { "left", "right" }
  THEN roll([s EXCEPT !.throttle = "window"], s.throttle)
  ELSE [s EXCEPT !.throttle = "idle"]

toggleHelp(s) == [s EXCEPT !.helpHidden = ~@]

toggleGotoTime(s) == gotoToggle([s EXCEPT !.helpHidden = TRUE])

exit(s) == Log([s EXCEPT !.exited = TRUE], << "exit" >>)

\* an escape that always resets the display
AlwaysReset(s) == showLayout(Log(s, << "emit", "resetGraphs" >>), 0)

resetDisplay(s) ==
  IF ~s.helpHidden \/ isVisible(s, GotoDialog)
  THEN dialogHide([s EXCEPT !.helpHidden = TRUE], GotoDialog)
  ELSE showLayout(Log(s, << "emit", "resetGraphs" >>), 0)

\* the screen's 'key' listener: the top-level dispatcher
dispatch(s, k) ==
  LET s1 == Log(s, << "key", k >>)
  IN  CASE k \in { "left", "right" } -> rollLayout(s1, k)
        [] k \in { "?", "h", "S-h" } -> toggleHelp(s1)
        [] k \in { "g", "S-g" } -> toggleGotoTime(s1)
        [] k \in { "w", "S-w", "s", "S-s" } ->
             Log(s1, << "emit", "zoomGraphs" >>)
        [] k \in { "a", "S-a", "d", "S-d" } ->
             Log(s1, << "emit", "scrollGraphs" >>)
        [] k \in { "z", "S-z", "x", "S-x" } ->
             Log(s1, << "emit", "startGraphs" >>)
        [] k \in { "q", "S-q" } -> exit(s1)
        [] k = "escape" -> resetDisplay(s1)
        [] OTHER -> s1

\* the container's listener for the global keys
containerKey(s, k) == IF k \in globalKeys THEN dispatch(s, k) ELSE s

\* displayFilterEnvWindow
displayFilterEnvWindow(s, v) ==
  baseToggle(Log(s, << "toggleFilter", v >>), v)

RECURSIVE bubbleEach(_, _, _, _), filterEach(_, _, _), scrollEach(_, _, _)

\* the scrollDetails handlers installed on envDetails, in turn
scrollEach(s, v, i) ==
  IF i > s.scrollH[v] THEN s
  ELSE scrollEach(Log(s, << "scroll", v >>), v, i + 1)

\* the bubbleKeyEvent handlers installed on envDetails for key k, in turn
bubbleEach(s, v, k, i) ==
  IF i > s.bubbleH[v] \/ s.exited THEN s
  ELSE bubbleEach(dispatch(s, k), v, k, i + 1)

\* the displayFilterEnvWindow handlers installed on envDetails, in turn
filterEach(s, v, i) ==
  IF i > s.filterH[v] THEN s
  ELSE filterEach(displayFilterEnvWindow(s, v), v, i + 1)

\* a key delivered to the focused environment box of view v
envKey(s, v, k) ==
  LET s1 == IF k \in scrollKeys THEN scrollEach(s, v, 1) ELSE s
      s2 == IF k \in filterKeys THEN filterEach(s1, v, 1) ELSE s1
  IN  IF k \in keyDifference THEN bubbleEach(s2, v, k, 1) ELSE s2

\* a key delivered to the focused element el
elementKey(s, el, k, res) ==
  CASE el[1] = "container" -> containerKey(s, k)
    [] el[1] = "env" -> envKey(s, el[2], k)
    [] el[1] = "text" -> textKey(s, el[2], k, res)
    [] el[1] \in { "accept", "cancel" } -> buttonKey(s, el[2], el, k, res)
    [] el[1] = "form" -> formKey(s, el[2], k)
    [] OTHER -> s

\* the screen's own key bindings: screen.key("C-c", exit)
screenKey(s, k) == IF k = "C-c" THEN exit(s) ELSE s

\* a program whose dispatcher hears every key, whatever has the focus
KeypressToDispatcher(s, k, res) ==
  LET s1 == IF ~s.grabKeys \/ k \in ignoreLocked THEN screenKey(s, k) ELSE s
  IN  IF s1.grabKeys # s.grabKeys \/ s1.exited THEN s1
      ELSE elementKey(containerKey(s1, k), Focused(s), k, res)

\* the program's 'keypress': the screen's bindings unless a text field has
\* grabbed the keys (ignoreLocked keys always), then the focused element
keypress(s, k, res) ==
  LET el == Focused(s)
      s1 == IF ~s.grabKeys \/ k \in ignoreLocked THEN screenKey(s, k) ELSE s
  IN  IF s1.grabKeys # s.grabKeys \/ s1.exited THEN s1
      ELSE elementKey(s1, el, k, res)

(***************************************************************************)
(* PlatformDetailsView: the environment filter.  A string is a sequence of *)
(* characters; the content of a box is a sequence of characters and tags.  *)
(***************************************************************************)
\* the characters a filter text is made of: letters in both cases, two
\* pattern-special characters and the blank
Chars == { "a", "A", "b", ".", "*", " " }

\* the "i" flag's comparison: the character, case folded
toLower(c) ==
  CASE c = "A" -> "a"
    [] c = "B" -> "b"
    [] c = "X" -> "x"
    [] OTHER -> c

Min(S) == CHOOSE x \in S : \A y \in S : x <= y
Max(S) == CHOOSE x \in S : \A y \in S : x >= y

\* lodash's reRegExpChar: the characters _.escapeRegExp escapes
reRegExpChar ==
  { "\\", "^", "$", ".", "*", "+", "?", "(", ")", "[", "]", "{", "}", "|" }

RECURSIVE escapeRegExp(_)
\* an escape that leaves the string as it is
EscapeNothing(str) == str

\* _.escapeRegExp(string): a backslash before every special character
escapeRegExp(str) ==
  IF Len(str) = 0 THEN << >>
  ELSE (IF Head(str) \in reRegExpChar THEN << "\\", Head(str) >>
        ELSE << Head(str) >>) \o escapeRegExp(Tail(str))

\* an atom of a pattern: a literal character or ".", possibly starred
Atom(c, any) == [ch |-> c, any |-> any, star |-> FALSE]

SyntaxError == [thrown |-> "SyntaxError", alts |-> << >>]

RECURSIVE ParsePattern(_, _, _, _)
\* the pattern syntax over the characters of this model: "\" quotes the
\* next character, "|" separates alternatives, "." is any character, "*"
\* repeats the atom before it and is an error without one
ParsePattern(p, i, alts, cur) ==
  IF i > Len(p) THEN [thrown |-> "", alts |-> Append(alts, cur)]
  ELSE CASE p[i] = "\\" ->
              IF i = Len(p) THEN SyntaxError
              ELSE ParsePattern(p, i + 2, alts,
                                Append(cur, Atom(p[i + 1], FALSE)))
         [] p[i] = "|" -> ParsePattern(p, i + 1, Append(alts, cur), << >>)
         [] p[i] = "*" ->
              IF Len(cur) = 0 \/ cur[Len(cur)].star THEN SyntaxError
              ELSE ParsePattern(p, i + 1, alts,
                                [cur EXCEPT ![Len(cur)].star = TRUE])
         [] p[i] = "." ->
              ParsePattern(p, i + 1, alts, Append(cur, Atom(".", TRUE)))
         [] OTHER ->
              ParsePattern(p, i + 1, alts, Append(cur, Atom(p[i], FALSE)))

\* new RegExp(pattern, flags): every pattern of the program has the i flag
RegExp(pattern) == ParsePattern(pattern, 1, << >>, << >>)

AtomMatches(a, c) == a.any \/ toLower(a.ch) = toLower(c)

RECURSIVE MatchAtoms(_, _, _, _)
\* the atoms from the k-th on match str at position j: the position after
\* the match (greedy, backtracking), 0 if there is none
MatchAtoms(atoms, k, str, j) ==
  IF k > Len(atoms) THEN j
  ELSE IF atoms[k].star
       THEN LET run == { n \in 0 .. (Len(str) - j + 1) :
                           \A m \in 0 .. (n - 1) :
                             AtomMatches(atoms[k], str[j + m]) }
                ok == { n \in run : MatchAtoms(atoms, k + 1, str, j + n) # 0 }
            IN  IF ok = { } THEN 0
                ELSE MatchAtoms(atoms, k + 1, str, j + Max(ok))
       ELSE IF j <= Len(str) /\ AtomMatches(atoms[k], str[j])
            THEN MatchAtoms(atoms, k + 1, str, j + 1)
            ELSE 0

\* the pattern matches str at position j: the position after the match of
\* the first alternative that matches, 0 if none does
MatchAt(re, str, j) ==
  LET hits == { i \in 1 .. Len(re.alts) :
                  MatchAtoms(re.alts[i], 1, str, j) # 0 }
  IN  IF hits = { } THEN 0
      ELSE MatchAtoms(re.alts[Min(hits)], 1, str, j)

\* the null exec returns
null == [index |-> 0, end |-> 0]

\* pattern.exec(str) searching from position from (lastIndex + 1): the
\* first match, as its position and the position after it
firstMatch(re, str, at) ==
  IF at = { } THEN null
  ELSE [index |-> Min(at), end |-> MatchAt(re, str, Min(at))]

exec(re, str, from) ==
  firstMatch(re, str,
             { j \in from .. (Len(str) + 1) : MatchAt(re, str, j) # 0 })

\* pattern.test(str)
test(re, str) == exec(re, str, 1) # null

RECURSIVE SplitFrom(_, _, _, _, _)
\* one turn of the loop of String.prototype.split, e being where the match
\* at q ends: a match that ends at p is passed over
SplitAt(str, re, p, q, out, e) ==
  IF e = 0 \/ e = p THEN SplitFrom(str, re, p, q + 1, out)
  ELSE SplitFrom(str, re, e, e, Append(out, SubSeq(str, p, q - 1)))

\* the loop of String.prototype.split: p is where the next piece begins, q
\* where a separator is looked for
SplitFrom(str, re, p, q, out) ==
  IF q > Len(str) THEN Append(out, SubSeq(str, p, Len(str)))
  ELSE SplitAt(str, re, p, q, out, MatchAt(re, str, q))

\* str.split(pattern)
split(str, re) ==
  IF Len(str) = 0
  THEN IF MatchAt(re, str, 1) # 0 THEN << >> ELSE << str >>
  ELSE SplitFrom(str, re, 1, 1, << >>)

\* /\s/gm over the characters of this model
whitespace == [thrown |-> "", alts |-> << << Atom(" ", FALSE) >> >>]

\* a filters argument that was not given
undefined == << << "undefined" >> >>

\* a test that looks at the label alone
TestLabelOnly(details, pattern) ==
  IF pattern.thrown # "" THEN [thrown |-> pattern.thrown, value |-> FALSE]
  ELSE [thrown |-> "", value |-> test(pattern, details.label)]

\* pattern.test(details.label) || pattern.test(details.data)
testDetails(details, pattern) ==
  IF pattern.thrown # "" THEN [thrown |-> pattern.thrown, value |-> FALSE]
  ELSE [thrown |-> "",
        value |-> test(pattern, details.label) \/ test(pattern, details.data)]

\* the callback of _.every in getEnvDetails: the row passes the filter
passes(details, filter) ==
  IF Len(filter) = 0 THEN [thrown |-> "", value |-> TRUE]
  ELSE testDetails(details, RegExp(escapeRegExp(filter)))

RECURSIVE every(_, _, _)
\* _.every goes on to the next filter unless the callback returned false
everyNext(details, filters, i, r) ==
  IF r.thrown # "" \/ ~r.value THEN r ELSE every(details, filters, i + 1)

\* _.every(filters, callback), from the i-th filter on
every(details, filters, i) ==
  IF i > Len(filters) THEN [thrown |-> "", value |-> TRUE]
  ELSE everyNext(details, filters, i, passes(details, filters[i]))

\* _.filter(rows, callback), res[i] being what the callback did with row i
filterRows(penv, res) ==
  IF \E i \in 1 .. Len(penv) : res[i].thrown # ""
  THEN [thrown |-> res[Min({ i \in 1 .. Len(penv) : res[i].thrown # "" })]
                     .thrown,
        value |-> << >>]
  ELSE [thrown |-> "",
        value |-> LET idx == SelectSeq([i \in 1 .. Len(penv) |-> i],
                                       LAMBDA i : res[i].value)
                  IN  [k \in 1 .. Len(idx) |-> penv[idx[k]]]]

\* getEnvDetails(filters) on the rows of process.env
getEnvDetails(penv, filters) ==
  filterRows(penv,
             [i \in 1 .. Len(penv) |->
                every(penv[i],
                      IF filters = undefined THEN << >> ELSE filters, 1)])

\* /\S/.test(filter)
nonBlank(filter) == \E i \in 1 .. Len(filter) : filter[i] # " "

RECURSIVE highlightPattern(_, _, _)
\* applyHighlights' chain: the non-blank filters, escaped, joined by "|"
highlightPattern(filters, i, prev) ==
  IF i > Len(filters) THEN prev
  ELSE IF ~nonBlank(filters[i]) THEN highlightPattern(filters, i + 1, prev)
  ELSE highlightPattern(filters, i + 1,
         (IF prev # << >> THEN Append(prev, "|") ELSE prev)
           \o escapeRegExp(filters[i]))

RECURSIVE highlightPieces(_, _, _, _, _, _, _)
\* applyHighlights' _.reduce over the pieces after the first: each piece is
\* preceded by the next match pattern.exec finds (the g flag resumes the
\* search where the last match ended) wrapped in {inverse} and {/}
highlightPiece(re, value, normal, pieces, k, prev, original) ==
  IF original = null THEN [thrown |-> "TypeError", value |-> << >>]
  ELSE highlightPieces(re, value, normal, pieces, k + 1, original.end,
         prev \o << "{inverse}" >>
              \o SubSeq(value, original.index, original.end - 1)
              \o << "{/}" >> \o normal \o pieces[k])

highlightPieces(re, value, normal, pieces, k, from, prev) ==
  IF k > Len(pieces) THEN [thrown |-> "", value |-> prev]
  ELSE highlightPiece(re, value, normal, pieces, k, prev,
                      exec(re, value, from))

\* normalAttributes + the result of the _.reduce
withAttributes(normal, r) ==
  IF r.thrown # "" THEN r ELSE [thrown |-> "", value |-> normal \o r.value]

\* _.reduce(split, callback) without an initial value: undefined for no
\* pieces, else the first piece is the start
reducePieces(re, value, normal, pieces) ==
  IF Len(pieces) = 0 THEN [thrown |-> "", value |-> << "undefined" >>]
  ELSE highlightPieces(re, value, normal, pieces, 2, 1, pieces[1])

\* applyHighlights once the pattern is compiled
highlightWith(re, value, normal) ==
  IF re.thrown # "" THEN [thrown |-> re.thrown, value |-> << >>]
  ELSE withAttributes(normal,
                      reducePieces(re, value, normal, split(value, re)))

\* applyHighlights(value, normalAttributes)
applyHighlights(value, normal, filters) ==
  IF filters = undefined THEN [thrown |-> "", value |-> normal \o value]
  ELSE highlightWith(RegExp(highlightPattern(filters, 1, << >>)), value,
                     normal)

\* _.repeat(" ", n)
repeat(n) == [i \in 1 .. n |-> " "]

RECURSIVE trimEnd(_), reduceContent(_, _, _, _)

\* _.trimEnd(string, "\n")
trimEnd(str) ==
  IF Len(str) > 0 /\ str[Len(str)] = "\n"
  THEN trimEnd(SubSeq(str, 1, Len(str) - 1)) ELSE str

\* one formatted row: label, padding and data
formatted(prev, details, longestLabel, hl, hd) ==
  IF prev.thrown # "" THEN prev
  ELSE IF hl.thrown # "" THEN hl
  ELSE IF hd.thrown # "" THEN hd
  ELSE [thrown |-> "",
        value |-> prev.value \o hl.value \o << "{/}" >>
                    \o repeat(longestLabel - Len(details.label) + 1)
                    \o hd.value \o << "{/}", "\n" >>]

\* getFormattedContent(prev, details)
getFormattedContent(prev, details, filters, longestLabel) ==
  formatted(prev, details, longestLabel,
            applyHighlights(details.label, << "{cyan-fg}{bold}" >>, filters),
            applyHighlights(details.data, << "{green-fg}" >>, filters))

\* _.reduce(data, getFormattedContent, ""), up to the i-th row
reduceContent(data, filters, longestLabel, i) ==
  IF i = 0 THEN [thrown |-> "", value |-> << >>]
  ELSE getFormattedContent(reduceContent(data, filters, longestLabel, i - 1),
                           data[i], filters, longestLabel)

\* the first label's length
FirstLabel(data) == IF Len(data) = 0 THEN 0 ELSE Len(data[1].label)

\* the longest label's length
longest(data) ==
  IF Len(data) = 0 THEN 0
  ELSE Max({ Len(data[i].label) : i \in 1 .. Len(data) })

\* _.trimEnd of what the reduce made
trimmed(r) ==
  IF r.thrown # "" THEN r ELSE [thrown |-> "", value |-> trimEnd(r.value)]

\* getBoxContent(data, filters)
getBoxContent(data, filters) ==
  trimmed(reduceContent(data, filters, longest(data), Len(data)))

\* the state of the environment box: what the view holds and shows, the rows
\* getEnvDetails returned last and the error the last change raised
EnvBox(penv, f, label, content, rows, err) ==
  [ environment |-> penv, filter |-> f, envLabel |-> label,
    envContent |-> content, kept |-> rows, thrown |-> err ]

\* createBox(getEnvDetails, ENV_DETAILS_BOX, true); this._filter = ""
createBox(penv, details) ==
  EnvBox(penv, << >>, " Environment Variables ",
         getBoxContent(details.value, undefined).value, details.value, "")

NewEnvBox(penv) == createBox(penv, getEnvDetails(penv, undefined))

\* the box after the filter change: label and content set, and the
\* assignment to this._filter that follows the return; nothing of it if
\* an error was thrown
setContent(b, after, details, content) ==
  IF details.thrown # "" THEN [b EXCEPT !.thrown = details.thrown]
  ELSE IF content.thrown # "" THEN [b EXCEPT !.thrown = content.thrown]
  ELSE EnvBox(b.environment, after,
              IF Len(after) > 0 THEN " Environment Variables (subsetted) "
              ELSE " Environment Variables ",
              IF Len(content.value) = 0
              THEN << "{red-fg}{bold}No env variables found matching filter criteria{/}" >>
              ELSE content.value,
              details.value, "")

\* getBoxContent(getEnvDetails(filters), filters)
filteredContent(b, after, filters, details) ==
  setContent(b, after, details, getBoxContent(details.value, filters))

\* the filters being split from the text
filterBy(b, after, filters) ==
  filteredContent(b, after, filters, getEnvDetails(b.environment, filters))

\* PlatformDetailsView.prototype.onEnvironmentVariablesFilterChange
onEnvironmentVariablesFilterChange(b, before, after) ==
  filterBy(b, after, split(after, whitespace))

\* a setter that regenerates the content whatever the value
AlwaysRegenerate(b, value) ==
  onEnvironmentVariablesFilterChange(b, b.filter, value)

\* PlatformDetailsView.prototype.setEnvironmentVariablesFilter
setEnvironmentVariablesFilter(b, value) ==
  IF value # b.filter
  THEN onEnvironmentVariablesFilterChange(b, b.filter, value)
  ELSE [b EXCEPT !.thrown = ""]

VARIABLES
  environment,   \* the rows of process.env: label and data of each variable
  filter,        \* view._filter
  envLabel,      \* the label of the envDetails box
  envContent,    \* the content of the envDetails box
  kept,          \* the rows getEnvDetails returned last (history variable)
  thrown         \* the error the last filter change raised, "" if none
                 \* (history variable)

filterVars == << environment, filter, envLabel, envContent, kept, thrown >>

(***************************************************************************)
(* BaseInputDialogView: the keypress handler of the text field.            *)
(* A text is a sequence of characters; a byte that does not print has a    *)
(* name ("TAB", "ESC", ...). A property of a key descriptor that is        *)
(* undefined, and a ch that is undefined or null, is empty.                *)
(***************************************************************************)
\* the bytes /\t|\r|\n|\v|\f|\0|[\b]/gm matches
scrubbed == { "TAB", "CR", "LF", "VT", "FF", "NUL", "BS" }

notScrubbed(c) == c \notin scrubbed

\* the control characters (0x00-0x1f and 0x7f) of this model
ControlCharacters == scrubbed \cup { "SOH", "ESC", "FS", "DEL" }

ignoredKeys == { "backspace", "delete", "escape", "tab" }

\* a keypress event: ch and the key descriptor's name, full, ctrl and meta
Key(ch, name, full, ctrl, meta) ==
  [ch |-> ch, name |-> name, full |-> full, ctrl |-> ctrl, meta |-> meta]

Tab == Key(<< "TAB" >>, "tab", "tab", FALSE, FALSE)

\* the keypress events the terminal's key parser delivers to the focused
\* text field: a, A, ., space, backspace, alt-backspace, delete, escape,
\* enter, ctrl-a, alt-a, ctrl-\ (0x1c has no key name) and tab
TerminalKeys ==
  { Key(<< "a" >>, "a", "a", FALSE, FALSE),
    Key(<< "A" >>, "a", "S-a", FALSE, FALSE),
    Key(<< "." >>, "", ".", FALSE, FALSE),
    Key(<< " " >>, "space", "space", FALSE, FALSE),
    Key(<< "DEL" >>, "backspace", "backspace", FALSE, FALSE),
    Key(<< >>, "backspace", "M-backspace", FALSE, TRUE),
    Key(<< >>, "delete", "delete", FALSE, FALSE),
    Key(<< "ESC" >>, "escape", "escape", FALSE, FALSE),
    Key(<< "CR" >>, "enter", "enter", FALSE, FALSE),
    Key(<< "SOH" >>, "a", "C-a", TRUE, FALSE),
    Key(<< >>, "a", "M-a", FALSE, TRUE),
    Key(<< "FS" >>, "", "FS", FALSE, FALSE),
    Tab }

\* the keypress events a form with keys sends a text field after a tab
SyntheticBackspace == Key(<< >>, "backspace", "", FALSE, FALSE)
SyntheticEscape == Key(<< "ESC" >>, "escape", "", FALSE, FALSE)

cleanseKeypress(ch, key) ==
  IF \/ key.ctrl
     \/ key.meta
     \/ key.full \in ignoredKeys
     \/ key.name \in ignoredKeys
  THEN << >>
  ELSE SelectSeq(ch, notScrubbed)

\* the text the keypress handler emits with 'textChanged', text being
\* textBox.getContent()
textBoxKeypress(text, ch, key) ==
  IF key.full = "backspace" \/ key.name = "backspace"
  THEN SubSeq(text, 1, Len(text) - 1)
  ELSE text \o cleanseKeypress(ch, key)

\* the bytes the text field itself does not take
\* (/^[\x00-\x08\x0b-\x0c\x0e-\x1f\x7f]$/)
refused == ControlCharacters \ { "TAB", "LF", "CR" }

\* the text field's own keypress listener, which runs after the handler:
\* the value of the field after the key
listener(value, ch, key) ==
  CASE key.name \in { "return", "enter", "escape" } -> value
    [] key.name = "backspace" -> SubSeq(value, 1, Len(value) - 1)
    [] ch # << >> /\ ch[1] \notin refused -> value \o ch
    [] OTHER -> value

\* screen.tabc, for the default tabSize of 4
tabc == << " ", " ", " ", " " >>

\* the content of the text field for a value: every tab is shown as tabc
RECURSIVE getContent(_)
getContent(value) ==
  IF value = << >> THEN << >>
  ELSE (IF Head(value) = "TAB" THEN tabc ELSE << Head(value) >>)
         \o getContent(Tail(value))

\* the text the handler emits for the event k when the field holds value
emit(value, k) == textBoxKeypress(getContent(value), k.ch, k)

\* the value of the field after the form's synthetic backspace
afterBackspace(value) ==
  listener(value, SyntheticBackspace.ch, SyntheticBackspace)

\* a tab: the handler runs for the tab, the field takes the tab, and the
\* form sends a backspace and an escape, for each of which the handler runs
tabEmits(value, tabbed) ==
  << emit(value, Tab),
     emit(tabbed, SyntheticBackspace),
     emit(afterBackspace(tabbed), SyntheticEscape) >>

VARIABLES
  value,         \* textBox.value of a dialog whose text field is focused
  pressed,       \* the last keypress event and the content it met
                 \* (history variable)
  emitted        \* the texts 'textChanged' was emitted with for that event
                 \* (history variable)

textVars == << value, pressed, emitted >>

NoKeypress == [key |-> Key(<< >>, "", "", FALSE, FALSE), text |-> << >>]

InitialText ==
  /\ value = << >>
  /\ pressed = NoKeypress
  /\ emitted = << >>

vars == << dashboardVars, filterVars, textVars >>

\* the environment box as one record
CurBox == EnvBox(environment, filter, envLabel, envContent, kept, thrown)

BoxBecomes(b) ==
  /\ environment' = b.environment
  /\ filter' = b.filter
  /\ envLabel' = b.envLabel
  /\ envContent' = b.envContent
  /\ kept' = b.kept
  /\ thrown' = b.thrown

InitialBox(b) ==
  /\ environment = b.environment
  /\ filter = b.filter
  /\ envLabel = b.envLabel
  /\ envContent = b.envContent
  /\ kept = b.kept
  /\ thrown = b.thrown

\* a row of process.env
Row(label, data) == [label |-> label, data |-> data]

\* the environments of this model
ProcessEnv1 ==
  << Row(<< "A", "B" >>, << "a", ".", "b", "*" >>),
     Row(<< "a", "x", "b" >>, << "B" >>),
     Row(<< "b" >>, << >>),
     Row(<< "A", "a" >>, << "a", " ", "b" >>) >>

ProcessEnv2 ==
  << Row(<< "b", "." >>, << "*" >>),
     Row(<< "X" >>, << "a", "a" >>),
     Row(<< "A", "B" >>, << "a", ".", "b", "*" >>),
     Row(<< "b", "b", "b" >>, << "." >>) >>

ProcessEnvs == { ProcessEnv1, ProcessEnv2 }

(***************************************************************************)
(* The state machine.                                                      *)
(***************************************************************************)
\* what validateTimeLabel does with the text entered
Results == Timestamps \cup Messages

\* the state before the Dashboard constructor shows the first layout: the
\* container has the focus, the help view and the goto-time dialog are hidden
Blank(loose) ==
  [ history |-> << Container >>, savedFocus |-> None, grabKeys |-> FALSE,
    reading |-> {}, unfocused |-> {},
    hidden |-> [d \in Dialogs |-> TRUE], helpHidden |-> TRUE,
    errorText |-> [d \in Dialogs |-> ""],
    errorTimeout |-> [d \in Dialogs |-> "unset"],
    timers |-> [d \in Dialogs |-> << >>],
    currentLayout |-> -1, views |-> << >>, nextId |-> 1,
    vtype |-> [v \in ViewIds |-> "none"], hasNode |-> {}, resizeSubs |-> {},
    position |-> [v \in ViewIds |-> 0], size |-> 1,
    uptime |-> [v \in ViewIds |-> 0],
    bubbleH |-> [v \in ViewIds |-> 0], scrollH |-> [v \in ViewIds |-> 0],
    filterH |-> [v \in ViewIds |-> 0], fdListeners |-> [v \in ViewIds |-> 0],
    throttle |-> "idle", hasRange |-> FALSE, exited |-> FALSE,
    uptimeHandle |-> {}, dialogNodes |-> {},
    shownFrom |-> [d \in Dialogs |-> None],
    looseRemove |-> loose, trace |-> << >> ]

\* Dashboard constructor: _createViews shows layout 0
Dashboard(loose) == [showLayout(Blank(loose), 0) EXCEPT !.trace = << >>]

\* the event a step handles and the state it found (history variable)
Event(ev, k) ==
  [ ev |-> ev, key |-> k, focused |-> Focused(Cur), saved |-> savedFocus,
    grab |-> grabKeys, stack |-> history,
    position |-> position, nodes |-> hasNode, subs |-> resizeSubs,
    keys |-> << bubbleH, scrollH, filterH >>,
    shown |-> { d \in Dialogs : ~hidden[d] }, help |-> ~helpHidden,
    errors |-> { d \in Dialogs : errorText[d] # "" },
    pending |-> { d \in Dialogs : Len(timers[d]) > 0 },
    layout |-> currentLayout, views |-> views ]

\* no event has been handled
NoEvent ==
  [ ev |-> "init", key |-> "", focused |-> None, saved |-> None,
    grab |-> FALSE, stack |-> << >>,
    position |-> [v \in ViewIds |-> 0], nodes |-> {}, subs |-> {},
    keys |-> << [v \in ViewIds |-> 0], [v \in ViewIds |-> 0],
               [v \in ViewIds |-> 0] >>,
    shown |-> {}, help |-> FALSE, errors |-> {},
    pending |-> {},
    layout |-> -1, views |-> << >> ]

Init ==
  /\ \E loose \in BOOLEAN : InitialState(Dashboard(loose))
  /\ input = NoEvent
  /\ steps = 0
  /\ InitialBox(NewEnvBox(ProcessEnv1))
  /\ InitialText

Fresh == [Cur EXCEPT !.trace = << >>]

\* a handler ran: its result is the next state, within the model's bound
\* process.exit ends the process: nothing of its state remains
Step(s, ev, k) ==
  /\ ~exited
  /\ ev \in { "key", "resize" } => steps < MaxSteps
  /\ s.nextId <= MaxViews + 1
  /\ IF s.exited
     THEN Becomes([Blank(looseRemove) EXCEPT !.exited = TRUE,
                                             !.trace = s.trace])
     ELSE Becomes(s)
  /\ steps' = IF ev \in { "key", "resize" } THEN steps + 1 ELSE steps
  /\ input' = Event(ev, k)
  /\ UNCHANGED << filterVars, textVars >>

\* the terminal delivers a key; what validateTimeLabel does with the text
\* matters to enter alone, the one key that submits
KeyPress ==
  \E k \in PressedKeys :
    \E res \in IF k = "enter" THEN Results ELSE { "t1" } :
      Step(keypress(Fresh, k, res), "key", k)

\* a pending error-hide timer of dialog d runs out
ErrorTimer ==
  \E d \in Dialogs : \E i \in 1 .. Len(timers[d]) :
    /\ timers[d][i] = 0
    /\ LET s1 == errorTimerFired(Fresh, d)
           rest == [j \in 1 .. (Len(timers[d]) - 1) |->
                      IF j < i THEN timers[d][j] ELSE timers[d][j + 1]]
           s2 == [s1 EXCEPT !.timers[d] = rest,
                            !.errorTimeout[d] =
                              IF i = Len(timers[d]) /\ @ = "live"
                              THEN "fired" ELSE @]
       IN  Step(s2, "errorTimer", "")

\* time passes: a second, while no timer is due
Tick ==
  /\ \E d \in Dialogs : Len(timers[d]) > 0
  /\ \A d \in Dialogs : \A i \in 1 .. Len(timers[d]) : timers[d][i] > 0
  /\ Step([Fresh EXCEPT !.timers =
             [d \in Dialogs |->
                [i \in 1 .. Len(timers[d]) |->
                   IF timers[d][i] > MILLISECONDS_PER_SECOND
                   THEN timers[d][i] - MILLISECONDS_PER_SECOND ELSE 0]]],
          "tick", "")

\* the throttle's wait ends
ThrottleTimer ==
  /\ throttle # "idle"
  /\ Step(throttleExpired(Fresh), "throttle", "")

RECURSIVE resizeAll(_, _)
resizeAll(s, vs) ==
  IF vs = {} THEN s
  ELSE LET v == CHOOSE x \in vs : \A y \in vs : x <= y
       IN  resizeAll(recalculatePosition(s, v), vs \ {v})

\* the terminal is resized: every subscribed view recalculates its position
Resize ==
  \E z \in Sizes :
    Step(resizeAll([Fresh EXCEPT !.size = z], resizeSubs), "resize", "")

\* a pending uptime interval of view v comes round
UptimeTimer ==
  \E v \in ViewIds :
    /\ uptime[v] > 0
    /\ Step(uptimeFired(Fresh, v), "uptime", "")

\* the metrics provider gets its first data: a time range exists
Metrics ==
  /\ ~hasRange
  /\ Step([Fresh EXCEPT !.hasRange = TRUE], "metrics", "")

Next ==
  \/ KeyPress
  \/ ErrorTimer
  \/ Tick
  \/ ThrottleTimer
  \/ Resize
  \/ UptimeTimer
  \/ Metrics

Spec == Init /\ [][Next]_vars

(***************************************************************************)
(* The environment filter alone: the dashboard stays as constructed while  *)
(* the filter dialog reports texts.                                        *)
(***************************************************************************)
\* the texts a keystroke can make of the text of the dialog's field
Edits(text) ==
  { text }
    \cup { Append(text, c) : c \in { x \in Chars : Len(text) < MaxFilterLen } }
    \cup { SubSeq(text, 1, Len(text) - 1) }

InitFilter ==
  /\ InitialState(Dashboard(FALSE))
  /\ input = NoEvent
  /\ steps = 0
  /\ \E penv \in ProcessEnvs : InitialBox(NewEnvBox(penv))
  /\ InitialText

\* filterEnvChanged: the dialog emitted 'textChanged' with text
FilterEnvChanged ==
  /\ \E text \in Edits(filter) :
       BoxBecomes(setEnvironmentVariablesFilter(CurBox, text))
  /\ UNCHANGED << dashboardVars, textVars >>

SpecFilter == InitFilter /\ [][FilterEnvChanged]_vars

(***************************************************************************)
(* The text field alone: the dashboard stays as constructed while keys     *)
(* arrive at the focused text field of a dialog.                           *)
(***************************************************************************)
\* the keypress event k arrived: the handler ran, then the field's listener
Delivered(k, texts, next) ==
  /\ Len(next) <= MaxFilterLen
  /\ pressed' = [key |-> k, text |-> getContent(value)]
  /\ emitted' = texts
  /\ value' = next
  /\ UNCHANGED << dashboardVars, filterVars >>

TextBoxKeypress ==
  \E k \in TerminalKeys \ { Tab } :
    Delivered(k, << emit(value, k) >>, listener(value, k.ch, k))

TextBoxTab ==
  Delivered(Tab, tabEmits(value, listener(value, Tab.ch, Tab)),
            afterBackspace(listener(value, Tab.ch, Tab)))

SpecKeypress == Init /\ [][TextBoxKeypress \/ TextBoxTab]_vars

(***************************************************************************)
(* Views constructed with any options, on the screen of the dashboard as   *)
(* constructed.                                                            *)
(***************************************************************************)
\* some code calls new View(options)
Construct ==
  \E type \in VIEW_MAP : \E options \in Options :
    Step(View(Fresh, nextId, type, options), "construct", type)

SpecConstruct == Init /\ [][Construct \/ Resize]_vars

(***************************************************************************)
(* The filter dialog of the first view, its text field and the view's      *)
(* listeners together: the dialog is opened, typed into and submitted.     *)
(***************************************************************************)
\* listeners handed undefined instead of a text: after.split throws
ListenersThrow(s, v, b, text) == [b EXCEPT !.thrown = "TypeError"]

\* what the 'validated' listeners of view v make of the box when the dialog
\* emits text: filterEnvValidated, once per listener, up to the first throw
filterEnvValidated(s, v, b, text) ==
  IF s.fdListeners[v] = 0 THEN [b EXCEPT !.thrown = ""]
  ELSE setEnvironmentVariablesFilter(b, text)

\* a key that makes no text: the dashboard handles it, the box stays
FilterKeyStep(s, k) ==
  /\ steps < MaxFilterKeys
  /\ steps' = steps + 1
  /\ Becomes(s)
  /\ input' = Event("key", k)

\* f on the environment box: displayFilterEnvWindow toggles the dialog, then
\* setValue(this._filter)
DisplayFilterEnvWindow ==
  /\ Focused(Cur) = env(1)
  /\ FilterKeyStep(keypress(Fresh, "f", "t1"), "f")
  /\ value' = filter
  /\ UNCHANGED << filterVars, pressed, emitted >>

\* the text the view's 'textChanged' or 'validated' listeners were handed
\* last (history variable)
Notified(text) == emitted' = << text >>

\* a keystroke in the text field: the field takes one text, 'textChanged'
\* reports one, and the two may differ
FilterEnvTyped ==
  /\ Focused(Cur) = textBox(1)
  /\ \E next \in Edits(value) : \E text \in { next, value } :
       /\ value' = next
       /\ BoxBecomes(setEnvironmentVariablesFilter(CurBox, text))
       /\ Notified(text)
  /\ Becomes(Fresh)
  /\ input' = Event("typed", "")
  /\ UNCHANGED << steps, pressed >>

\* enter in the text field: the keypress handler reports the field's text
\* (the CR is scrubbed), the form submits, validate emits 'validated' with
\* textBox.getContent(), and what the listeners throw is what validate
\* throws
FilterEnvSubmit ==
  /\ Focused(Cur) = textBox(1)
  /\ LET b == filterEnvValidated(Cur, 1, CurBox, getContent(value))
     IN  /\ BoxBecomes(b)
         /\ FilterKeyStep(keypress(Fresh, "enter",
                                    IF b.thrown = "" THEN "t1" ELSE b.thrown),
                           "enter")
  /\ Notified(getContent(value))
  /\ UNCHANGED << value, pressed >>

\* escape in the text field: the keypress handler reports the field's text
\* (escape is an ignored key), then the cancel button is pressed
FilterEnvCancel ==
  /\ Focused(Cur) = textBox(1)
  /\ BoxBecomes(filterEnvValidated(Cur, 1, CurBox, getContent(value)))
  /\ FilterKeyStep(keypress(Fresh, "escape", "t1"), "escape")
  /\ Notified(getContent(value))
  /\ UNCHANGED << value, pressed >>

InitSubmit ==
  /\ \E loose \in BOOLEAN : InitialState(Dashboard(loose))
  /\ input = NoEvent
  /\ steps = 0
  /\ InitialBox(NewEnvBox(ProcessEnv2))
  /\ InitialText

SpecSubmit ==
  InitSubmit /\ [][DisplayFilterEnvWindow \/ FilterEnvTyped
                      \/ FilterEnvSubmit \/ FilterEnvCancel]_vars

(***************************************************************************)
(* What the last step found and did.                                       *)
(***************************************************************************)
\* entry i of the last step's log is e
At(i, e) == i \in 1 .. Len(trace) /\ trace[i][1] = e[1] /\ trace[i] = e

\* the places of e in the last step's log
Places(e) == { i \in 1 .. Len(trace) : At(i, e) }

\* the last step's handlers did e
Did(e) == Places(e) # { }

\* the top-level 'key' events the last step emitted
KeyEvents == { i \in 1 .. Len(trace) : trace[i][1] = "key" }

\* the views of the layout the last step found active
Outgoing == { input.views[i] : i \in 1 .. Len(input.views) }

\* the first view construction of the last step (past the log if none)
FirstConstruct ==
  LET cs == { i \in 1 .. Len(trace) : trace[i][1] = "construct" }
  IN  IF cs = { } THEN Len(trace) + 1
      ELSE CHOOSE i \in cs : \A j \in cs : i <= j

\* log entries that are callbacks of view v or of its filter dialog
OfView(e, v) ==
  \/ /\ e[1] \in { "destroy", "removeResize", "detach", "attach", "position",
                   "recalculatePosition", "setInterval", "clearInterval", "scroll", "toggleFilter",
                   "show", "hide", "submit", "cancel", "validate",
                   "validated", "textChanged", "errorHide" }
     /\ e[2] = v
  \/ /\ e[1] = "focus"
     /\ e[2][2] = v

(***************************************************************************)
(* C1..C10.                                                                *)
(***************************************************************************)
\* C1: a submit of a visible dialog (error text showing or not) whose
\* validate() returns normally leaves the dialog hidden and the focus on the
\* element that had it just before the dialog was shown.
C1_SubmitHidesAndRestoresFocus ==
  \A d \in Dialogs :
    (d \in input.shown /\ Did(<< "submit", d >>) /\ Did(<< "validated", d >>))
      => hidden[d] /\ Focused(Cur) = shownFrom[d]

\* a dialog shown from an environment box, with its error text showing and
\* the error timer pending, was submitted with success
C1_Witness ==
  /\ GotoDialog \in input.shown
  /\ GotoDialog \in input.pending
  /\ Did(<< "submit", GotoDialog >>)
  /\ Did(<< "validated", GotoDialog >>)
  /\ hidden[GotoDialog]
  /\ shownFrom[GotoDialog][1] = "env"
  /\ Focused(Cur) = shownFrom[GotoDialog]

\* C2: a submit of a visible dialog whose validate() throws leaves the dialog
\* visible, the error text showing the thrown message, the focus on the text
\* field and exactly one error-hide timer of 3000 ms scheduled; the handler
\* ends normally (the process goes on).
C2_FailedSubmitShowsError ==
  \A d \in Dialogs :
    (d \in input.shown /\ Did(<< "submit", d >>) /\ ~Did(<< "validated", d >>))
      => /\ ~hidden[d]
         /\ errorText[d] \in Messages
         /\ Did(<< "error", d, errorText[d] >>)
         /\ Focused(Cur) = textBox(d)
         /\ Cardinality(Places(<< "setTimeout", d >>)) = 1
         /\ timers[d] = << 3000 >>
         /\ errorTimeout[d] = "live"
         /\ ~exited

\* the goto-time dialog refused the text entered
C2_Witness ==
  /\ GotoDialog \in input.shown
  /\ Did(<< "submit", GotoDialog >>)
  /\ ~Did(<< "validated", GotoDialog >>)
  /\ errorText[GotoDialog] = "not a time"
  /\ Focused(Cur) = textBox(GotoDialog)
  /\ timers[GotoDialog] = << ERROR_TEXT_DISPLAY_TIME >>

\* C3: no dialog ever has more than one error-hide timer pending; a submit
\* that finds a timer pending cancels it before it validates, and if it fails
\* too, the one timer left runs 3000 ms from this second submit.
C3_OneErrorTimer ==
  \A d \in Dialogs :
    /\ Len(timers[d]) <= 1
    /\ (d \in input.pending /\ Did(<< "submit", d >>)) =>
         /\ \E i \in Places(<< "clearTimeout", d >>) :
              \A j \in Places(<< "validate", d >>) : i < j
         /\ Did(<< "validate", d >>)
         /\ ~Did(<< "validated", d >>) => timers[d] = << 3000 >>

\* a second failed submit arrived a second or more after the first, while
\* the first one's timer was pending
C3_Witness ==
  /\ GotoDialog \in input.pending
  /\ Did(<< "submit", GotoDialog >>)
  /\ Did(<< "clearTimeout", GotoDialog >>)
  /\ ~Did(<< "validated", GotoDialog >>)
  /\ timers[GotoDialog] = << ERROR_TEXT_DISPLAY_TIME >>
  /\ errorText[GotoDialog] # ""

\* C4: a cancel of a visible dialog leaves the dialog hidden and the focus on
\* the element saved when the dialog was shown, and neither calls validate()
\* nor emits 'validated'.
C4_CancelHidesWithoutValidating ==
  \A d \in Dialogs :
    (d \in input.shown /\ Did(<< "cancel", d >>))
      => /\ hidden[d]
         /\ Focused(Cur) = shownFrom[d]
         /\ ~Did(<< "validate", d >>)
         /\ ~Did(<< "validated", d >>)

\* escape cancelled a visible dialog that had been shown from an
\* environment box
C4_Witness ==
  \E d \in Dialogs :
    /\ d \in input.shown
    /\ input.key = "escape"
    /\ Did(<< "cancel", d >>)
    /\ hidden[d]
    /\ shownFrom[d][1] = "env"
    /\ Focused(Cur) = shownFrom[d]

\* C5: the bubbled keys are the global keys that are not local keys
\* ({a,b,c} less {b} is {a,c}); a key delivered to the environment box of an
\* attached view re-emits exactly one top-level 'key' event if it is in the
\* difference and none if it is a local key; w, S-w, s and S-s scroll the
\* box and never emit zoomGraphs.
C5_BubbledKeys ==
  /\ difference({ "a", "b", "c" }, { "b" }) = { "a", "c" }
  /\ keyDifference = globalKeys \ localKeys
  /\ \A v \in Outgoing :
       (input.ev = "key" /\ input.focused = env(v)) =>
         /\ input.key \in keyDifference =>
              /\ Cardinality(KeyEvents) = 1
              /\ Did(<< "key", input.key >>)
         /\ input.key \in localKeys =>
              /\ KeyEvents = { }
              /\ ~Did(<< "emit", "zoomGraphs" >>)
         /\ input.key \in { "w", "S-w", "s", "S-s" } =>
              Cardinality(Places(<< "scroll", v >>)) = 1

\* w was pressed on the environment box of an attached view and scrolled it
C5_Witness ==
  \E v \in Outgoing :
    /\ input.ev = "key"
    /\ input.key = "w"
    /\ input.focused = env(v)
    /\ Did(<< "scroll", v >>)
    /\ KeyEvents = { }

\* C6: whatever attach and detach events an environment box has had, it
\* carries one bubbling handler per bubbled key while attached and none
\* while detached; a bubbled key delivered to it emits one top-level 'key'
\* event while attached and none after the detach.
C6_OneBubblingHandler ==
  \A v \in ViewIds :
    /\ vtype[v] = "platformDetails" =>
         bubbleH[v] = IF v \in hasNode THEN 1 ELSE 0
    /\ (input.ev = "key" /\ input.focused = env(v)
          /\ input.key \in keyDifference) =>
         Cardinality(KeyEvents) = IF v \in Outgoing THEN 1 ELSE 0

\* a bubbled key was delivered to the environment box of a destroyed view
\* and went nowhere
C6_Witness ==
  \E v \in ViewIds :
    /\ input.ev = "key"
    /\ input.key \in keyDifference
    /\ input.focused = env(v)
    /\ v \notin Outgoing
    /\ v \notin hasNode
    /\ bubbleH[v] = 0
    /\ KeyEvents = { }

C8_CtrlCExits ==
  (input.ev = "key" /\ input.key = "C-c") => exited /\ Did(<< "exit" >>)

\* C-c was pressed while a text field had grabbed the keys
C8_Witness ==
  /\ input.ev = "key"
  /\ input.key = "C-c"
  /\ input.grab
  /\ input.focused[1] = "text"
  /\ exited

\* C9: when escape reaches the dispatcher while the help view or the
\* goto-time dialog is visible, both end hidden, and the active layout and its
\* views stay; otherwise resetGraphs is emitted and layout 0 is active
\* afterwards.
C9_EscapeResets ==
  Did(<< "key", "escape" >>) =>
    IF input.help \/ GotoDialog \in input.shown
    THEN /\ helpHidden
         /\ hidden[GotoDialog]
         /\ currentLayout = input.layout
         /\ views = input.views
         /\ FirstConstruct > Len(trace)
         /\ \A v \in Outgoing : ~Did(<< "destroy", v >>)
         /\ ~Did(<< "emit", "resetGraphs" >>)
    ELSE /\ Did(<< "emit", "resetGraphs" >>)
         /\ currentLayout = 0

\* escape reached the dispatcher while the goto-time dialog was visible on
\* a layout other than layout 0
C9_Witness ==
  /\ Did(<< "key", "escape" >>)
  /\ GotoDialog \in input.shown
  /\ input.layout # 0
  /\ hidden[GotoDialog]
  /\ helpHidden
  /\ currentLayout = input.layout

\* C10: in a layout switch every outgoing view is destroyed (its resize
\* subscription removed, its node detached, its interval cleared) before the
\* first incoming view is constructed, and nothing of an outgoing view runs
\* once construction has begun; a view that has left keeps no resize
\* subscription, no attached node and no interval.
C10_DestroyBeforeConstruct ==
  /\ \A v \in ViewIds :
       (vtype[v] # "none" /\ \A i \in 1 .. Len(views) : views[i] # v) =>
         v \notin resizeSubs /\ v \notin hasNode /\ uptime[v] = 0
  /\ \A id \in 0 .. (Len(Layouts) - 1) :
       Did(<< "showLayout", id >>) =>
         /\ FirstConstruct <= Len(trace)
         /\ \A v \in Outgoing :
              /\ \E i \in Places(<< "destroy", v >>) : i < FirstConstruct
              /\ \E i \in Places(<< "removeResize", v >>) : i < FirstConstruct
              /\ \E i \in Places(<< "detach", v >>) : i < FirstConstruct
              /\ vtype[v] = "platformDetails" =>
                   \E i \in Places(<< "clearInterval", v >>) :
                     i < FirstConstruct
              /\ \A i \in 1 .. Len(trace) :
                   (i >= FirstConstruct) => ~OfView(trace[i], v)

\* a layout of two views, one of them a platform-details view, was replaced
C10_Witness ==
  /\ \E id \in 0 .. (Len(Layouts) - 1) : Did(<< "showLayout", id >>)
  /\ Len(input.views) = 2
  /\ \E v \in Outgoing : Did(<< "clearInterval", v >>)
  /\ FirstConstruct <= Len(trace)
  /\ \A v \in Outgoing : v \notin resizeSubs /\ v \notin hasNode

(***************************************************************************)
(* C11..C20.                                                               *)
(***************************************************************************)
RECURSIVE SumOver(_, _)
\* the sum of f over the set vs
SumOver(f, vs) ==
  IF vs = { } THEN 0
  ELSE LET v == CHOOSE x \in vs : TRUE
       IN  f[v] + SumOver(f, vs \ {v})

\* the surfaces of views attached to the container (the help view and the
\* goto-time dialog, which every state has, are left out)
Surfaces(s) == Cardinality(s.hasNode) + Cardinality(s.dialogNodes)

\* the views a layout switch has destroyed
Destroyed ==
  { v \in ViewIds :
      vtype[v] # "none" /\ \A i \in 1 .. Len(views) : views[i] # v }

\* C11: layout switches do not leak: whatever layouts were active before,
\* the surfaces attached to the container, the resize subscriptions and the
\* pending intervals number what a first activation of the active layout
\* gives; a destroyed platform-details view has left no surface on the
\* container, its filter dialog included.
C11_NoLeak ==
  (~exited /\ currentLayout >= 0) =>
    LET first == showLayout(Blank(looseRemove), currentLayout)
    IN  /\ Surfaces(Cur) = Surfaces(first)
        /\ Cardinality(resizeSubs) = Cardinality(first.resizeSubs)
        /\ SumOver(uptime, ViewIds) = SumOver(first.uptime, ViewIds)
        /\ \A v \in Destroyed : v \notin hasNode /\ v \notin dialogNodes

\* C12: a destroyed view has no resize listener registered: a later resize
\* does not call its recalculatePosition and leaves its state as destroy left
\* it, while every view of the active layout keeps its subscription and is
\* called once per resize.
C12_DestroyUnsubscribes ==
  /\ \A v \in Destroyed : v \notin resizeSubs /\ position[v] = 0
  /\ ~exited => \A i \in 1 .. Len(views) : views[i] \in resizeSubs
  /\ input.ev = "resize" =>
       \A v \in ViewIds :
         Cardinality(Places(<< "recalculatePosition", v >>)) =
           IF v \in Outgoing THEN 1 ELSE 0

\* the terminal changed its size after a layout switch: the views of the
\* active layout took the new position, the destroyed ones were not called
C12_Witness ==
  /\ input.ev = "resize"
  /\ Destroyed # { }
  /\ Len(views) = 2
  /\ \A i \in 1 .. Len(views) :
       Did(<< "position", views[i] >>) /\ position[views[i]] = size
  /\ \A v \in Destroyed : ~Did(<< "recalculatePosition", v >>)

\* C13: while the metrics provider has no time range, a toggle of the
\* goto-time dialog leaves the dialog hidden, the focus where it was and the
\* saved focus as it was.
C13_NoRangeNoDialog ==
  (Did(<< "toggle", GotoDialog >>) /\ ~hasRange) =>
    /\ GotoDialog \notin input.shown
    /\ hidden[GotoDialog]
    /\ ~Did(<< "show", GotoDialog >>)
    /\ Focused(Cur) = input.focused
    /\ savedFocus = input.saved
    /\ ~grabKeys

\* g was pressed on an environment box before the first metrics arrived,
\* with a focus saved earlier
C13_Witness ==
  /\ input.ev = "key"
  /\ input.key = "g"
  /\ Did(<< "toggle", GotoDialog >>)
  /\ ~hasRange
  /\ input.focused[1] = "env"
  /\ input.saved # None
  /\ hidden[GotoDialog]
  /\ Focused(Cur) = input.focused
  /\ savedFocus = input.saved

\* the calls of metricsProvider.gotoTimeValue in the last step
GotoCalls == { i \in 1 .. Len(trace) : trace[i][1] = "gotoTimeValue" }

\* C14: a submit of the visible goto-time dialog calls validateTimeLabel
\* once; if it throws, the message thrown is the error text, gotoTimeValue
\* is not called, 'validated' is not emitted and the dialog stays visible;
\* if it returns, gotoTimeValue is called exactly once, with the timestamp
\* returned, before the dialog is hidden.
C14_GotoValidate ==
  (GotoDialog \in input.shown /\ Did(<< "submit", GotoDialog >>)) =>
    \E r \in Results :
      /\ Places(<< "validateTimeLabel", r >>) =
           { i \in 1 .. Len(trace) : trace[i][1] = "validateTimeLabel" }
      /\ Cardinality(Places(<< "validateTimeLabel", r >>)) = 1
      /\ IF r \in Messages
         THEN /\ errorText[GotoDialog] = r
              /\ GotoCalls = { }
              /\ ~Did(<< "validated", GotoDialog >>)
              /\ ~hidden[GotoDialog]
              /\ ~Did(<< "hide", GotoDialog >>)
         ELSE /\ Cardinality(GotoCalls) = 1
              /\ GotoCalls = Places(<< "gotoTimeValue", r >>)
              /\ Did(<< "hide", GotoDialog >>)
              /\ \A i \in GotoCalls :
                   \A j \in Places(<< "hide", GotoDialog >>) : i < j
              /\ hidden[GotoDialog]

\* the goto-time dialog, its error text showing, was given a valid time:
\* the graphs went to the timestamp and the dialog closed
C14_Witness ==
  /\ GotoDialog \in input.shown
  /\ GotoDialog \in input.pending
  /\ Did(<< "validateTimeLabel", "t2" >>)
  /\ Did(<< "gotoTimeValue", "t2" >>)
  /\ Cardinality(GotoCalls) = 1
  /\ Did(<< "hide", GotoDialog >>)
  /\ hidden[GotoDialog]

\* term occurs in str, letter case aside
Occurs(term, str) ==
  \E j \in 0 .. (Len(str) - Len(term)) :
    \A i \in 1 .. Len(term) : toLower(str[j + i]) = toLower(term[i])

\* the terms of a filter text: its maximal runs of non-blank characters
Terms(text) ==
  { SubSeq(text, i, j) : i \in 1 .. Len(text), j \in 1 .. Len(text) } \cap
  { t \in UNION { [1 .. n -> Chars \ { " " }] : n \in 1 .. Len(text) } :
      \E i \in 1 .. Len(text) :
        /\ i + Len(t) - 1 <= Len(text)
        /\ SubSeq(text, i, i + Len(t) - 1) = t
        /\ i = 1 \/ text[i - 1] = " "
        /\ i + Len(t) - 1 = Len(text) \/ text[i + Len(t)] = " " }

\* every term of the text occurs in the row's label or in its data
Keeps(row, text) ==
  \A t \in Terms(text) : Occurs(t, row.label) \/ Occurs(t, row.data)

\* C15: the rows getEnvDetails returns for a filter text are the rows of
\* the environment, in their order, in which every non-empty term of the
\* text occurs (letter case aside) in the label or in the value; a text
\* without a term (empty or blank) gives every row.
C15_FilterRows ==
  /\ kept = SelectSeq(environment, LAMBDA row : Keeps(row, filter))
  /\ Terms(filter) = { } => kept = environment

\* two terms, one in upper case, kept three rows of four, in their order
C15_Witness ==
  /\ filter = << "A", " ", "b" >>
  /\ environment = ProcessEnv1
  /\ kept = << ProcessEnv1[1], ProcessEnv1[2], ProcessEnv1[4] >>

\* C16: a term is matched as the characters it is made of: with a term that
\* holds pattern-special characters the rows kept are those in which that
\* very sequence occurs (letter case aside); no filter text makes the
\* filtering or the highlighting raise an error.
C16_LiteralTerms ==
  /\ thrown = ""
  /\ \A t \in Terms(filter) :
       (\E i \in 1 .. Len(t) : t[i] \in reRegExpChar) =>
         \A k \in 1 .. Len(environment) :
           (\E n \in 1 .. Len(kept) : kept[n] = environment[k]) =>
             Occurs(t, environment[k].label) \/ Occurs(t, environment[k].data)

\* the text a.b* kept the one row that holds a.b* and not the row axb, and
\* the content shows the match emphasised
C16_Witness ==
  /\ filter = << "a", ".", "b", "*" >>
  /\ environment = ProcessEnv1
  /\ kept = << ProcessEnv1[1] >>
  /\ thrown = ""
  /\ \E i \in 1 .. Len(envContent) : envContent[i] = "{inverse}"

\* the toggle() calls the last step made on the filter dialog of view v
FilterToggles(v) == Cardinality(Places(<< "toggleFilter", v >>))

\* the statement of C17 as the specification has it: a toggle() shows the
\* hidden dialog and hides the visible one, the goto-time dialog (given a
\* time range) like the filter dialog.
C17_ToggleFlips ==
  /\ \A v \in ViewIds :
       FilterToggles(v) = 1 => hidden[v] = (v \in input.shown)
  /\ (Cardinality(Places(<< "toggle", GotoDialog >>)) = 1 /\ hasRange) =>
       hidden[GotoDialog] = (GotoDialog \in input.shown)

\* C17: toggle() of a filter dialog shows the hidden dialog and hides the
\* visible one, so two consecutive toggles leave its visibility as it was;
\* toggle() of the goto-time dialog, given a time range, shows the hidden
\* dialog and leaves the visible dialog visible.
C17_ToggleShowsOrFlips ==
  /\ \A v \in ViewIds :
       FilterToggles(v) > 0 =>
         hidden[v] = IF FilterToggles(v) % 2 = 1 THEN v \in input.shown
                     ELSE v \notin input.shown
  /\ (Did(<< "toggle", GotoDialog >>) /\ hasRange) =>
       /\ ~hidden[GotoDialog]
       /\ GotoDialog \in input.shown =>
            /\ ~Did(<< "hide", GotoDialog >>)
            /\ ~Did(<< "show", GotoDialog >>)

\* g reached the dispatcher while the goto-time dialog was visible, and the
\* dialog stayed visible
C17_Witness ==
  /\ Did(<< "key", "g" >>)
  /\ Did(<< "toggle", GotoDialog >>)
  /\ hasRange
  /\ GotoDialog \in input.shown
  /\ ~hidden[GotoDialog]

\* C18: a show of a dialog saves the element that had the focus, brings the
\* dialog to the front, resets the form and focuses the text field, in this
\* order; a dialog that a step made visible has the focus it was shown from
\* saved, no error text showing (whatever it showed when it was last
\* hidden) and its text field focused and reading.
C18_ShowEffects ==
  \A d \in Dialogs :
    /\ \A i \in Places(<< "show", d >>) :
         /\ i + 3 <= Len(trace)
         /\ trace[i + 1][1] = "saveFocus"
         /\ At(i + 2, << "setFront", d >>)
         /\ At(i + 3, << "reset", d >>)
         /\ \E j \in Places(<< "focus", textBox(d) >>) : j > i + 3
    /\ (d \notin input.shown /\ ~hidden[d]) =>
         /\ Did(<< "show", d >>)
         /\ At(Max(Places(<< "show", d >>)) + 1,
               << "saveFocus", shownFrom[d] >>)
         /\ savedFocus = shownFrom[d]
         /\ errorText[d] = ""
         /\ Focused(Cur) = textBox(d)
         /\ d \in reading
         /\ grabKeys

\* the goto-time dialog, cancelled with its error text showing, was shown
\* again from an environment box
C18_Witness ==
  /\ GotoDialog \notin input.shown
  /\ GotoDialog \in input.errors
  /\ input.focused[1] = "env"
  /\ Did(<< "show", GotoDialog >>)
  /\ ~hidden[GotoDialog]
  /\ savedFocus = input.focused
  /\ errorText[GotoDialog] = ""
  /\ Focused(Cur) = textBox(GotoDialog)

\* a key other than enter and escape arrived at the text field of dialog d
\* while the dialog was showing an error
TypedOnError(d) ==
  /\ input.ev = "key"
  /\ input.focused = textBox(d)
  /\ input.grab
  /\ d \in input.shown
  /\ d \in input.errors
  /\ input.key \notin { "enter", "escape", "C-c" }

\* the statement of C19 as the specification has it: the error text of a
\* visible dialog is hidden when the error-hide timer runs out and when a
\* key is typed into the text field.
C19_KeystrokeHidesError ==
  \A d \in Dialogs :
    /\ Did(<< "errorHide", d >>) => errorText[d] = ""
    /\ TypedOnError(d) => errorText[d] = ""

\* C19: the error text of a visible dialog is hidden when an error-hide
\* timer of the dialog runs out, and the dialog stays visible; a key typed
\* into the text field leaves the error text showing and the timer pending;
\* an error text is hidden by nothing but a timer and the reset of a show.
C19_TimerHidesError ==
  \A d \in Dialogs :
    /\ Did(<< "errorHide", d >>) =>
         /\ errorText[d] = ""
         /\ hidden[d] = (d \notin input.shown)
    /\ TypedOnError(d) =>
         /\ errorText[d] # ""
         /\ ~hidden[d]
         /\ Did(<< "textChanged", d >>)
         /\ d \in input.pending => Len(timers[d]) > 0
    /\ (d \in input.errors /\ errorText[d] = "" /\ ~exited) =>
         Did(<< "errorHide", d >>) \/ Did(<< "reset", d >>)

\* a was typed into the text field of the goto-time dialog while the
\* error text showed, and the error text still shows
C19_Witness ==
  /\ TypedOnError(GotoDialog)
  /\ input.key = "a"
  /\ Did(<< "textChanged", GotoDialog >>)
  /\ errorText[GotoDialog] # ""
  /\ Len(timers[GotoDialog]) = 1
  /\ Focused(Cur) = textBox(GotoDialog)

\* the texts of the last keypress event: the content before and the
\* first text emitted
Gained ==
  { emitted[1][i] : i \in Len(pressed.text) + 1 .. Len(emitted[1]) }

\* C20: a keystroke in the text field emits one 'textChanged' with the
\* recomputed text: backspace gives the text less its last character;
\* delete, escape, tab and a key with ctrl or meta give the text unchanged;
\* any other key gives the text with the key's character appended, the
\* scrubbed bytes left out, so that the text gains no control character.
C20_OneTextChanged ==
  emitted # << >> =>
    /\ Len(emitted) = 1
    /\ CASE pressed.key.ctrl \/ pressed.key.meta ->
              emitted[1] = pressed.text
         [] pressed.key.name = "backspace" ->
              emitted[1] = SubSeq(pressed.text, 1, Len(pressed.text) - 1)
         [] pressed.key.name \in { "delete", "escape", "tab" } ->
              emitted[1] = pressed.text
         [] OTHER ->
              emitted[1] =
                pressed.text \o SelectSeq(pressed.key.ch, notScrubbed)
    /\ Gained \cap ControlCharacters = {}

(***************************************************************************)
(* C21..C30.                                                               *)
(***************************************************************************)
\* the last step's log has an entry of kind k
DidKind(k) == \E i \in 1 .. Len(trace) : trace[i][1] = k

\* the last step asked for layout 0 (resetDisplay with nothing to close)
\* while layout 0 was the current one
SameLayoutAsked ==
  /\ input.ev = "key"
  /\ input.layout = 0
  /\ Did(<< "emit", "resetGraphs" >>)

\* C21: _showLayout(id) with id the current layout does nothing: in every
\* reachable state it returns the state it was given, and a step that called
\* it so destroyed and constructed no view and left the layout, the view
\* list, the focus stack and the views' nodes and subscriptions as they were.
C21_SameLayoutNoOp ==
  /\ ~exited => showLayout(Cur, currentLayout) = Cur
  /\ SameLayoutAsked =>
       /\ ~DidKind("showLayout")
       /\ ~DidKind("destroy")
       /\ ~DidKind("construct")
       /\ ~DidKind("focus")
       /\ currentLayout = input.layout
       /\ views = input.views
       /\ history = input.stack

\* escape arrived at the environment box of a view of layout 0 with no
\* dialog and no help showing, after the layout had been left and entered
\* again
C21_Witness ==
  /\ SameLayoutAsked
  /\ input.key = "escape"
  /\ input.focused[1] = "env"
  /\ views = input.views
  /\ views # << 1 >>
  /\ history = input.stack

\* the views of the active layout
Live == { views[i] : i \in 1 .. Len(views) }

\* el is a surface of a view of the active layout: its environment box or
\* an element of its filter dialog
OfLive(el) ==
  /\ el[1] \in { "env", "text", "form", "accept", "cancel" }
  /\ el[2] \in Live

\* C22: after a layout activation the focus stack has the container at its
\* bottom and above it only surfaces of the views the activation constructed;
\* and in every state the stack is not empty, so that one element, its top,
\* is the one the screen hands the keys to.
C22_FocusStackAfterActivation ==
  ~exited =>
    /\ DidKind("showLayout") =>
         /\ Len(history) >= 1
         /\ history[1] = Container
         /\ \A i \in 2 .. Len(history) : OfLive(history[i])
         /\ Live \cap Outgoing = { }
    /\ Len(history) >= 1
    /\ Focused(Cur) # None

\* the layout was switched by the throttle's timer while the goto-time
\* dialog was open over another view; the stack is the container and the
\* environment box of the new view
C22_Witness ==
  /\ input.ev = "throttle"
  /\ input.focused = textBox(GotoDialog)
  /\ DidKind("showLayout")
  /\ Len(input.stack) >= 2
  /\ Len(history) = 2
  /\ history[1] = Container
  /\ history[2][1] = "env"
  /\ OfLive(history[2])

Remounted(v) ==
  \E i \in Places(<< "detach", v >>) :
    \E j \in Places(<< "attach", v >>) : i < j

\* C24: on a resize every subscribed view recalculates its position.  If
\* the position is the one the node has, the node keeps it and is not
\* detached.  If it differs the node gets the new position, and the node is
\* removed and appended again if and only if the view is flagged
\* remountOnResize and its node is attached; the same nodes are attached
\* after the resize as before it, and the views are the same.
C24_ResizeRecalculates ==
  input.ev = "resize" =>
    /\ \A v \in input.subs :
         /\ Cardinality(Places(<< "recalculatePosition", v >>)) = 1
         /\ position[v] = size
         /\ Did(<< "position", v >>) = (input.position[v] # size)
         /\ Remounted(v) =
              (input.position[v] # size /\ vtype[v] = "memoryGraph"
                 /\ v \in input.nodes)
         /\ Did(<< "detach", v >>) = Remounted(v)
         /\ Did(<< "attach", v >>) = Remounted(v)
    /\ \A v \in ViewIds \ input.subs :
         /\ ~Did(<< "recalculatePosition", v >>)
         /\ position[v] = input.position[v]
    /\ hasNode = input.nodes
    /\ resizeSubs = input.subs
    /\ views = input.views
    /\ history = input.stack

\* the terminal changed its size over the layout of a line graph and a
\* platform-details view: both got the new position, the graph was
\* remounted, the platform-details view was not
C24_Witness ==
  /\ input.ev = "resize"
  /\ Len(views) = 2
  /\ input.position[views[1]] # size
  /\ Remounted(views[1])
  /\ Did(<< "position", views[2] >>)
  /\ ~Did(<< "detach", views[2] >>)
  /\ hasNode = { views[1], views[2] }

\* the style and emphasis markers of a box's content
Markers == { "{inverse}", "{/}", "{cyan-fg}{bold}", "{green-fg}" }

notMarker(c) == c \notin Markers

\* a content without its markers
Unmarked(content) == SelectSeq(content, notMarker)

\* label, padding and value of a row, for labels padded to the width w
PlainRow(row, w) == row.label \o repeat(w - Len(row.label) + 1) \o row.data

RECURSIVE PlainRows(_, _, _)
\* the first i rows, each on a line
PlainRows(rows, w, i) ==
  IF i = 0 THEN << >>
  ELSE PlainRows(rows, w, i - 1) \o (IF i > 1 THEN << "\n" >> ELSE << >>)
         \o PlainRow(rows[i], w)

\* the emphasised span from marker i to marker j is the term t, letter case
\* aside
SpanIs(content, i, j, t) ==
  /\ Len(t) = j - i - 1
  /\ \A k \in 1 .. Len(t) : toLower(content[i + k]) = toLower(t[k])

\* every emphasis marker is closed, and what it encloses is nothing or a
\* term of the text
SpansMatch(content, text) ==
  \A i \in 1 .. Len(content) :
    content[i] = "{inverse}" =>
      \E j \in (i + 1) .. Len(content) :
        /\ content[j] = "{/}"
        /\ \A k \in (i + 1) .. (j - 1) : notMarker(content[k])
        /\ j = i + 1 \/ \E t \in Terms(text) : SpanIs(content, i, j, t)

\* C25: the content of the environment box, its markers removed, is the
\* rows getEnvDetails kept, each as label, padding and value in the letter
\* case of the row, for every filter text (blank ones too) and every value
\* (empty ones too); every emphasised span is an occurrence of a term; the
\* rows kept are rows of the environment, which is as it was.
C25_OnlyMarkup ==
  kept # << >> =>
    /\ Unmarked(envContent) = PlainRows(kept, longest(kept), Len(kept))
    /\ SpansMatch(envContent, filter)
    /\ \A i \in 1 .. Len(kept) :
         \E j \in 1 .. Len(environment) : kept[i] = environment[j]

\* the elements of the content before its i-th element that are on the
\* same line and are no markers
Column(content, i) ==
  Cardinality({ k \in 1 .. (i - 1) :
                  /\ notMarker(content[k])
                  /\ \A m \in k .. (i - 1) : content[m] # "\n" })

\* the line of the content's i-th element
Line(content, i) ==
  Cardinality({ k \in 1 .. (i - 1) : content[k] = "\n" }) + 1

\* the place in the content where the value of the n-th row starts: the
\* first value style marker of line n
ValueStart(content, n) ==
  Min({ i \in 1 .. Len(content) :
          content[i] = "{green-fg}" /\ Line(content, i) = n })

\* what is on the line of the content's i-th element before it, markers
\* removed
Before(content, i) ==
  Unmarked(SubSeq(content,
                  Max({ 0 } \cup { k \in 1 .. (i - 1) : content[k] = "\n" })
                    + 1,
                  i - 1))

\* C26: in the content of the environment box the value of every row
\* starts in the same column, the one after the longest label of the rows
\* rendered and one blank: what precedes it on its line is the row's label
\* and blanks up to that column.
C26_LabelsPadded ==
  kept # << >> =>
    /\ Line(envContent, Len(envContent)) = Len(kept)
    /\ \A n \in 1 .. Len(kept) :
         /\ Column(envContent, ValueStart(envContent, n)) =
              longest(kept) + 1
         /\ Before(envContent, ValueStart(envContent, n)) =
              kept[n].label
                \o repeat(longest(kept) - Len(kept[n].label) + 1)
    /\ \A n \in 1 .. Len(kept) : Len(kept[n].label) <= longest(kept)
    /\ \E n \in 1 .. Len(kept) : Len(kept[n].label) = longest(kept)

\* a filter with a term kept rows whose labels differ in length, the
\* longest of them shorter than the longest label of the environment
C26_Witness ==
  /\ Terms(filter) # { }
  /\ Len(kept) >= 2
  /\ \E n, m \in 1 .. Len(kept) : Len(kept[n].label) < Len(kept[m].label)
  /\ longest(kept) < longest(environment)
  /\ Column(envContent, ValueStart(envContent, 1)) = longest(kept) + 1

\* the views that were constructed and are views of the dashboard no more
Gone == { v \in ViewIds : vtype[v] # "none" /\ v \notin Live }

\* C27: a view never has more than one uptime interval pending, and has
\* one only while its node (and with it the Node box) is attached; a detach
\* of the Node box that no attach follows leaves none; a view that was
\* destroyed has none, and the callback never runs for such a view.
C27_UptimeWhileAttached ==
  ~exited =>
    \A v \in ViewIds :
      /\ uptime[v] <= 1
      /\ uptime[v] = 1 <=> (v \in hasNode /\ vtype[v] = "platformDetails")
      /\ uptime[v] = 1 <=> v \in uptimeHandle
      /\ Did(<< "detach", v >>) =>
           \/ uptime[v] = 0
           \/ \E i \in Places(<< "setInterval", v >>) :
                \A j \in Places(<< "detach", v >>) : j < i
      /\ Did(<< "destroy", v >>) => (uptime[v] = 0 /\ v \notin hasNode)
      /\ v \in Gone => uptime[v] = 0
      /\ Did(<< "uptime", v >>) => (v \in Live /\ v \in hasNode)

\* a platform-details view with its interval pending was destroyed by a
\* layout switch, and later the interval of the view that is there now
\* came round
C27_Witness ==
  /\ input.ev = "uptime"
  /\ \E v \in Gone : vtype[v] = "platformDetails" /\ uptime[v] = 0
  /\ \E v \in Live : Did(<< "uptime", v >>) /\ uptime[v] = 1 /\ v > 1

\* the options the last step's constructor was called with
Passed == [ parent |-> trace[1][2], layoutConfig |-> trace[1][3] ]

\* the options lack a parent, or a layoutConfig whose getPosition is a
\* function
Misconfigured(options) ==
  \/ options.parent = None
  \/ options.layoutConfig \in { "undefined", "{}", "{getPosition: 'top'}" }

\* C28: constructing a view without a parent, or without a layoutConfig
\* whose getPosition is a function, throws an assertion error at once: the
\* constructor does nothing else, no resize subscription is registered, no
\* node is attached, no view object comes to exist; a constructor that does
\* not throw was given both
C28_MisconfiguredViewFails ==
  input.ev = "construct" =>
    /\ Misconfigured(Passed) =>
         /\ Len(trace) = 2
         /\ trace[2][1] = "AssertionError"
         /\ trace[2][2] =
              IF Passed.parent = None THEN "View requires parent"
              ELSE "View requires layoutConfig option with getPosition function"
         /\ resizeSubs = input.subs
         /\ hasNode = input.nodes
         /\ position = input.position
         /\ history = input.stack
         /\ views = input.views
         /\ \A v \in ViewIds : v >= nextId => vtype[v] = "none"
    /\ ~Misconfigured(Passed) =>
         /\ ~DidKind("AssertionError")
         /\ resizeSubs = input.subs \cup { nextId - 1 }
         /\ (nextId - 1) \in hasNode \ input.nodes

\* a view was constructed without a getPosition function next to views
\* constructed well, and another without a parent
C28_Witness ==
  /\ input.ev = "construct"
  /\ Passed.parent = Container
  /\ Passed.layoutConfig = "{getPosition: 'top'}"
  /\ DidKind("AssertionError")
  /\ Cardinality(resizeSubs) >= 2

\* the last step was a submit of the filter dialog of the first view
FilterSubmitted ==
  input.ev = "key" /\ input.key = "enter" /\ Did(<< "submit", 1 >>)

\* C29: a submit of the environment-filter dialog never enters the error
\* state: whatever the text, it emits 'validated' exactly once, the
\* listeners get the text of the field and throw nothing, no error text is
\* set and no error-hide timer started, and the dialog, hidden after the
\* emission if it was visible, ends hidden
C29_FilterSubmitNeverFails ==
  FilterSubmitted =>
    /\ Cardinality(Places(<< "validated", 1 >>)) = 1
    /\ Cardinality({ i \in 1 .. Len(trace) : trace[i][1] = "validated" }) = 1
    /\ thrown = ""
    /\ filter = getContent(value)
    /\ ~DidKind("error")
    /\ ~DidKind("setTimeout")
    /\ errorText[1] = ""
    /\ errorTimeout[1] = "unset"
    /\ timers[1] = << >>
    /\ hidden[1]
    /\ 1 \in input.shown =>
         \A i \in Places(<< "validated", 1 >>) :
           \E j \in Places(<< "hide", 1 >>) : i < j

\* a text with a pattern-special character was submitted and the dialog
\* closed
C29_Witness ==
  /\ FilterSubmitted
  /\ 1 \in input.shown
  /\ Did(<< "hide", 1 >>)
  /\ hidden[1]
  /\ Len(filter) >= 2
  /\ \E i \in 1 .. Len(filter) : filter[i] = "*"
  /\ filter = getContent(value)
  /\ Len(kept) < Len(environment)

\* the dashboard is as the last step found it: layout index, view list,
\* the views' key bindings, resize subscriptions and nodes
DashboardAsFound ==
  /\ currentLayout = input.layout
  /\ views = input.views
  /\ << bubbleH, scrollH, filterH >> = input.keys
  /\ resizeSubs = input.subs
  /\ hasNode = input.nodes
  /\ position = input.position

\* C30: a submit that fails (the error text is set) leaves the dashboard as
\* it was: the current layout index, the list of views, their key bindings
\* and their resize subscriptions; so does the error-hide timer when it
\* fires
C30_FailedSubmitKeepsDashboard ==
  /\ DidKind("error") => (input.ev = "key" /\ DashboardAsFound)
  /\ input.ev = "errorTimer" => (Did(<< "errorHide", GotoDialog >>)
                                  /\ DashboardAsFound)

\* a submit failed over a layout of two views with key bindings and resize
\* subscriptions
C30_Witness ==
  /\ DidKind("error")
  /\ Len(views) = 2
  /\ \E i \in 1 .. 2 : filterH[views[i]] > 0
  /\ \A i \in 1 .. 2 : views[i] \in resizeSubs
  /\ currentLayout = 2

(***************************************************************************)
(* C31..C40                                                                *)
(***************************************************************************)
\* C31: no layout is activated while the goto-time dialog is visible: a
\* step that found the dialog visible destroys no view, clears no focus
\* stack and shows no layout, the throttled roll's deferred call included
C31_NoActivationUnderGoto ==
  (GotoDialog \in input.shown /\ ~exited) =>
    /\ ~DidKind("showLayout")
    /\ ~DidKind("destroy")
    /\ views = input.views
    /\ currentLayout = input.layout

\* C32 as stated: a hidden dialog has no pending error-hide timer
C32_HiddenHasNoTimer ==
  \A d \in Dialogs : hidden[d] => timers[d] = << >>

\* C32: a dialog has at most one error-hide timer pending, and has one
\* exactly while this.errorTimeout holds a live handle; a submit cancels
\* the pending timer, so a successful submit hides the dialog with none
\* pending; a hide without a submit (cancel, escape, toggle) leaves the
\* pending timer pending; when it fires against the hidden dialog it
\* clears the error text of that dialog and nothing else
C32_SubmitCancelsTimer ==
  ~exited =>
    \A d \in Dialogs :
      /\ Len(timers[d]) <= 1
      /\ (errorTimeout[d] = "live") <=> (Len(timers[d]) = 1)
      /\ (Did(<< "submit", d >>) /\ d \in input.pending) =>
           Did(<< "clearTimeout", d >>)
      /\ (Did(<< "submit", d >>) /\ ~DidKind("error")) =>
           (hidden[d] /\ timers[d] = << >>)
      /\ (Did(<< "hide", d >>) /\ ~Did(<< "submit", d >>)
            /\ d \in input.pending) =>
           (hidden[d] /\ Len(timers[d]) = 1 /\ ~DidKind("clearTimeout"))
      /\ (Did(<< "errorHide", d >>) /\ d \notin input.shown) =>
           /\ hidden[d]
           /\ errorText[d] = ""
           /\ history = input.stack
           /\ savedFocus = input.saved
           /\ { e \in Dialogs : ~hidden[e] } = input.shown
           /\ views = input.views

\* the goto-time dialog was cancelled while its error text showed: it is
\* hidden and its timer is still pending
C32_Witness ==
  /\ Did(<< "cancel", GotoDialog >>)
  /\ Did(<< "hide", GotoDialog >>)
  /\ GotoDialog \in input.errors
  /\ hidden[GotoDialog]
  /\ Len(timers[GotoDialog]) = 1
  /\ errorTimeout[GotoDialog] = "live"

\* C33: hide() of a dialog that is not visible changes neither the focused
\* element nor the saved focus: when escape reaches the dispatcher with the
\* help overlay visible and no dialog visible, the element that had the
\* focus has it afterwards and the saved focus is the same
C33_HideOfHiddenKeepsFocus ==
  (/\ input.ev = "key"
   /\ Did(<< "key", "escape" >>)
   /\ input.help
   /\ input.shown = { }
   /\ ~exited) =>
    /\ Focused(Cur) = input.focused
    /\ savedFocus = input.saved

\* the elements of dialog d that take the focus
DialogElements(d) ==
  { textBox(d), acceptButton(d), cancelButton(d), form(d) }

C35_OneDialogVisible ==
  Cardinality({ d \in Dialogs : ~hidden[d] }) <= 1

\* C37: the help overlay and the goto-time dialog are never visible at the
\* same time
C37_HelpXorGoto ==
  ~(~helpHidden /\ ~hidden[GotoDialog])

\* the last step was key k pressed while the text field of dialog d had the
\* focus
KeyInTextField(d) == input.ev = "key" /\ input.focused = textBox(d)

\* C36: while a dialog's text field has the focus no ordinary key reaches
\* the dispatcher: the layout, the views and the help overlay stay, the
\* process goes on, every key but enter and escape leaves the dialogs'
\* visibility alone, and the key is handed to the field's keypress handler
\* as text; C-c alone acts globally and ends the process
C36_TextFieldOwnsKeys ==
  \A d \in Dialogs :
    KeyInTextField(d) =>
      IF input.key = "C-c" THEN exited
      ELSE /\ ~exited
           /\ ~DidKind("key")
           /\ ~DidKind("showLayout")
           /\ currentLayout = input.layout
           /\ views = input.views
           /\ helpHidden = ~input.help
           /\ Did(<< "textChanged", d >>)
           /\ input.key \notin { "enter", "escape" } =>
                { e \in Dialogs : ~hidden[e] } = input.shown

\* q was pressed in the text field of the visible goto-time dialog with the
\* help overlay hidden: the process goes on and the dialog stays
C36_Witness ==
  /\ KeyInTextField(GotoDialog)
  /\ input.key = "q"
  /\ GotoDialog \in input.shown
  /\ Did(<< "textChanged", GotoDialog >>)
  /\ ~exited
  /\ ~hidden[GotoDialog]

\* the last step was a cancel of the filter dialog of the first view
FilterCancelled ==
  input.ev = "key" /\ input.key = "escape" /\ Did(<< "cancel", 1 >>)

\* C38: the view's filter is the text of the last 'textChanged' or
\* 'validated' notification it was handed (the empty text before any); a
\* notification with the text the filter already has leaves label, content
\* and rows as they are; a cancel leaves the filter at the text of the
\* field and hides the dialog
C38_FilterIsLastNotified ==
  /\ filter = IF emitted = << >> THEN << >> ELSE emitted[Len(emitted)]
  /\ setEnvironmentVariablesFilter(CurBox, filter)
       = [CurBox EXCEPT !.thrown = ""]
  /\ FilterCancelled =>
       /\ filter = getContent(value)
       /\ hidden[1]
       /\ ~Did(<< "validated", 1 >>)

\* the dialog, opened on the empty filter, was typed into and cancelled:
\* the filter is the typed text
C38_Witness ==
  /\ FilterCancelled
  /\ steps = 2
  /\ 1 \in input.shown
  /\ Len(filter) >= 2
  /\ filter = getContent(value)
  /\ Len(kept) < Len(environment)

\* the layout index one to the right and one to the left of c among n
\* layouts, written without the remainder
RightOf(c, n) == IF c = n - 1 THEN 0 ELSE c + 1
LeftOf(c, n) == IF c = 0 THEN n - 1 ELSE c - 1

\* C39: the current layout index is always one of 0 .. n - 1; a roll that
\* runs, at once or deferred by the throttle, moves from the index it finds
\* to the next one for right and the previous one for left, wrapping at
\* both ends; a key kept by the throttle moves nothing; for every number of
\* layouts the target is an index, and with one layout it is the current
\* one
C39_LayoutIndexWraps ==
  ~exited =>
    /\ currentLayout \in 0 .. (Len(Layouts) - 1)
    /\ Cardinality({ i \in 1 .. Len(trace) : trace[i][1] = "roll" }) <= 1
    /\ Did(<< "roll", "right" >>) =>
         currentLayout = RightOf(input.layout, Len(Layouts))
    /\ Did(<< "roll", "left" >>) =>
         currentLayout = LeftOf(input.layout, Len(Layouts))
    /\ (input.ev = "key" /\ input.key \in { "left", "right" }
          /\ ~DidKind("roll")) => currentLayout = input.layout
    /\ \A n \in 1 .. MaxLayouts : \A c \in 0 .. (n - 1) :
         /\ target(c, 1, n) = RightOf(c, n)
         /\ target(c, -1, n) = LeftOf(c, n)
         /\ n = 1 => target(c, 1, n) = c /\ target(c, -1, n) = c

\* the deferred roll wrapped from the last layout to the first
C39_Witness ==
  /\ input.ev = "throttle"
  /\ Did(<< "roll", "right" >>)
  /\ input.layout = Len(Layouts) - 1
  /\ currentLayout = 0
  /\ Len(views) = Len(Layouts[1])

\* the error text of dialog d is on the screen
ErrorDisplayed(d) == ~hidden[d] /\ errorText[d] # ""

\* C40: an error message set by a failed submit stays displayed until its own
\* timer has run its 3000 ms, unless the dialog is hidden, shown again or
\* submitted again first: the failed submit leaves exactly one timer, set to
\* the full display time, whatever timer an earlier failed submit (of this or
\* of a previous showing of the dialog) had left; a displayed error always
\* has that timer pending; the timer's remaining time changes only as time
\* passes; and a displayed error leaves the screen only when the timer fires
\* with no time left, the form is reset by a show, or the dialog is hidden
C40_ErrorLastsItsTime ==
  [][ ~exited' =>
        \A d \in Dialogs :
          /\ (DidKind("error") /\ Did(<< "submit", d >>))' =>
                /\ ErrorDisplayed(d)'
                /\ timers'[d] = << ERROR_TEXT_DISPLAY_TIME >>
                /\ (Len(timers[d]) > 0) => Did(<< "clearTimeout", d >>)'
          /\ ErrorDisplayed(d)' => Len(timers'[d]) = 1
          /\ (Len(timers[d]) = 1 /\ Len(timers'[d]) = 1
                /\ ~Did(<< "setTimeout", d >>)') =>
                \/ timers'[d] = timers[d]
                \/ /\ input'.ev = "tick"
                   /\ timers[d][1] > 0
                   /\ timers'[d][1] < timers[d][1]
                   /\ timers[d][1] - timers'[d][1] <= MILLISECONDS_PER_SECOND
          /\ (ErrorDisplayed(d) /\ ~ErrorDisplayed(d)') =>
                \/ Did(<< "errorHide", d >>)' /\ timers[d] = << 0 >>
                \/ Did(<< "reset", d >>)'
                \/ Did(<< "hide", d >>)' ]_vars

\* a failed submit of the goto-time dialog found the timer of an error that
\* a later show of the dialog had already reset, part of its time gone
C40_Witness ==
  /\ DidKind("error")
  /\ Did(<< "submit", GotoDialog >>)
  /\ GotoDialog \in input.pending
  /\ GotoDialog \notin input.errors
  /\ Did(<< "clearTimeout", GotoDialog >>)
  /\ timers[GotoDialog] = << ERROR_TEXT_DISPLAY_TIME >>
  /\ ErrorDisplayed(GotoDialog)

====
